---- MODULE Spec2Model ----
(***************************************************************************)
(* Release packaging engine of rename_tool.py: create_release and the      *)
(* helpers it calls (get_pkg_dirs, get_suxiaoban_setup_files, safe_copy,   *)
(* delete_matching_release_dirs), as a state machine over an abstract      *)
(* filesystem.                                                             *)
(*                                                                         *)
(* Strings of the source that are not ASCII are transliterated:            *)
(*   product name  -> "LingxiXiaoban"      edition label -> "std-edition"   *)
(*   linux group label -> "uos+kylin"      help documents -> help-*.docx    *)
(* A text whose characters matter (the date, file names) is a sequence of  *)
(* strings, so that matching, slicing and concatenation are computed.      *)
(***************************************************************************)
EXTENDS Integers, Sequences, FiniteSets, TLC

\* ------------------------------------------------------------------ bounds
\* Longest platform list enumerated exhaustively over PlatformIds.
MaxPlats == 2
\* Most copy failures the environment injects into one run.
MaxFail == 2

\* --------------------------------------------------------------- constants
\* Progress window of the platform loop (start_pct, end_pct).
start_pct == 30
end_pct == 80

SupportedPlatforms == <<"linux-arm64", "linux-x64", "mac-arm64", "mac-x64", "win-x64">>
\* An identifier outside the supported five.
UnknownPlatform == "bsd-x64"
PlatformIds == {"linux-x64", "mac-arm64", "win-x64", UnknownPlatform}

\* A table that also has an entry for the unsupported identifier.
arch_map_any ==
  [p \in {"linux-arm64", "linux-x64", "mac-arm64", "mac-x64", UnknownPlatform} |->
     CASE p = "linux-arm64" -> [arch |-> "linux-arm64",   target_dir |-> "linux"]
       [] p = "mac-arm64"   -> [arch |-> "mac-arm64",     target_dir |-> "mac"]
       [] p = "mac-x64"     -> [arch |-> "mac-intel-x64", target_dir |-> "mac"]
       [] OTHER             -> [arch |-> "linux-x64",     target_dir |-> "linux"]]

\* arch_map of the platform loop: platform -> (arch tag, target group).
arch_map ==
  [p \in {"linux-arm64", "linux-x64", "mac-arm64", "mac-x64"} |->
     CASE p = "linux-arm64" -> [arch |-> "linux-arm64",   target_dir |-> "linux"]
       [] p = "linux-x64"   -> [arch |-> "linux-x64",     target_dir |-> "linux"]
       [] p = "mac-arm64"   -> [arch |-> "mac-arm64",     target_dir |-> "mac"]
       [] p = "mac-x64"     -> [arch |-> "mac-intel-x64", target_dir |-> "mac"]]

\* The three platform-group subdirectories (mac_dir_name, win_dir_name,
\* linux_dir_name), in the order of `targets`.
targets == <<"mac", "win", "linux">>

\* A table that sends the mac installation guide to the Windows group too.
help_items_wide ==
  << [hf |-> "help-desktop.docx", targets |-> <<"mac", "win", "linux">>],
     [hf |-> "help-mac-install.docx", targets |-> <<"mac", "win">>],
     [hf |-> "help-domestic.docx", targets |-> <<"linux">>] >>

\* help_items: document -> the groups it is copied to.
help_items ==
  << [hf |-> "help-desktop.docx", targets |-> <<"mac", "win", "linux">>],
     [hf |-> "help-mac-install.docx", targets |-> <<"mac">>],
     [hf |-> "help-domestic.docx", targets |-> <<"linux">>] >>

HelpFiles == {"help-desktop.docx", "help-mac-install.docx", "help-domestic.docx", "releases.json"}

\* ------------------------------------------------------------------- texts
Digit == {"0", "1", "2", "3", "4", "5", "6", "7", "8", "9"}

\* re.match(r'^\d{8}$', date): eight digits from the start, then the end of the
\* string, where `$` also matches just before one trailing newline.
DateMatches(d) ==
  /\ Len(d) >= 8
  /\ \A k \in 1..8 : d[k] \in Digit
  /\ \/ Len(d) = 8
     \/ Len(d) = 9 /\ d[9] = "\n"

\* date[:4], the first four characters.
First4(d) == IF Len(d) <= 4 THEN d ELSE SubSeq(d, 1, 4)

\* date[-4:]
Last4(d) == IF Len(d) <= 4 THEN d ELSE SubSeq(d, Len(d) - 3, Len(d))

\* Strings that hold a decimal dotted triple (\d+\.\d+\.\d+).
DottedTriples == {"1.2.27", "3.4.5", "9.8.7"}

\* re.findall(r'\d+\.\d+\.\d+', win_file): the triples of a file name, in order.
IsTriple(s) == s \in DottedTriples
FindTriples(name) == SelectSeq(name, IsTriple)

\* new_dir_name = "<product>_<version> --<date>"
new_dir_name(v, d) == <<"LingxiXiaoban_", v, " --">> \o d

\* new_filename / new_win_x64: the release artifact's name.
new_filename(v, d, arch) ==
  <<"LingxiXiaoban-", v, "-std-edition-">> \o Last4(d) \o <<"-", arch, ".zip">>

\* An arch tag used as it is.
upgrade_arch_same(arch) == arch

\* upgrade_arch: the arch tag of the staging name, mac- replaced by darwin-.
upgrade_arch(arch) ==
  CASE arch = "mac-arm64"     -> "darwin-arm64"
    [] arch = "mac-intel-x64" -> "darwin-intel-x64"
    [] OTHER                  -> arch

\* upgrade_name of a non-Windows platform and of Windows.
upgrade_name(v, arch) == <<"gerenzhushou-", v, "-standard-", upgrade_arch(arch), ".zip">>
upgrade_name_win(v) == <<"gerenzhushou-", v, "-standard-win32-x64.zip">>

Range(s) == {s[k] : k \in 1..Len(s)}

\* ------------------------------------------------------------------- state
VARIABLES
  version, date, platforms,        \* the request
  delete_existing, clear_upgrade, dry_run,
  stop_event,                      \* "none" (no event passed), "clear", "set"
  stop0,                           \* stop_event when the run was called
  log_callback,                    \* the caller's log callback: "records", or "raises" on every call
  os_name,                         \* os.name: "nt" or "posix"
  pkg,                             \* os.listdir(pkgpath): the directories, in listing order
  wins,                            \* the files of pkgpath, in listing order
  help,                            \* the files present in helppath
  locked,                          \* directory -> "free", "perm" (no permission), "busy" (held open)
  failBudget,                      \* copy failures the environment may still inject
  fs,                              \* the working directory: release dirs, staging dir, their files
  fs0,                             \* fs when the run was called
  pc, i, hi, ti,                   \* position in create_release, loop indexes
  inflight, retpc,                 \* the safe_copy call in progress, and where it returns to
  copies,                          \* the safe_copy calls finished so far, with their outcome
  log, progress,                   \* what the callbacks received
  result, raised,                  \* what create_release returned, or raised
  run, log1,                       \* number of the call, and the log of the call before it
  dstfile, dstfile0,               \* one safe_copy call: its destination file, now and at the call
  tmpfile,                         \* its temporary file: "none", "empty", "part", "full"
  faults,                          \* operation -> "ok", "perm" (PermissionError), "err" (other error)
  pending,                         \* the exception on its way to safe_copy's handlers
  cmds,                            \* the external commands safe_copy has run
  killed,                          \* the process was interrupted
  fn,                              \* the removal operation under way, "none" outside ToolsSpec
  listable, names, names0,         \* its base directory: can it be listed, its entries now and at the call
  ni, count,                       \* loop index and counter of the batch removal
  env,                             \* what the machine offers: user name, handle.exe, taskkill, MoveFileExW
  scheduled,                       \* a delete-on-restart is registered for the target
  finished,                        \* the GUI's _on_finish has run for this call
  is_running,                      \* ReleaseSystemGUI.is_running
  threads,                         \* the worker threads it has started, each with its position
  buttons,                         \* state of its execute, stop and simulate buttons
  afterq,                          \* callbacks its workers posted with root.after, not yet run
  sim_i, sim_runs, sim0,           \* simulate_release: its step (0: not running), its calls,
                                   \* and is_running when it was called
  preview, opts,                   \* a batch-rename utility: its preview flag, its rename options
  printed                          \* and the lines it printed

request == <<version, date, platforms, delete_existing, clear_upgrade, dry_run, os_name, log_callback>>
sources == <<pkg, wins, help, locked, fs0, stop0>>
onecopy == <<dstfile, dstfile0, tmpfile, faults, pending, cmds, killed>>
removal == <<fn, listable, names, names0, ni, count, env, scheduled>>
legacy == <<is_running, threads, buttons, afterq, sim_i, sim_runs, sim0>>
batch == <<preview, opts, printed>>
gui == <<finished, legacy, batch>>
vars == <<request, sources, stop_event, failBudget, fs, pc, i, hi, ti, inflight, retpc,
          copies, log, progress, result, raised, run, log1, onecopy, removal, gui>>

\* Directories of the working directory the model tracks: the output directory
\* of this request ("out"), another directory that matches the release pattern
\* ("old"), and the staging directory uppath ("up").
Dirs == {"out", "old", "up"}
ReleaseDirs == {"out", "old"}

NoResult == [none |-> TRUE]
File(dir, sub, name, data) == [dir |-> dir, sub |-> sub, name |-> name, data |-> data]
Path(dir, sub, name) == [dir |-> dir, sub |-> sub, name |-> name]
StaleOut == File("out", "", <<"stale.txt">>, <<"stale">>)
StaleUp == File("up", "", <<"stale.zip">>, <<"stale">>)

\* A package directory pkg-<arch><suffix>, with or without the payload file.
PkgDir(arch, suffix, payload) == [name |-> <<"pkg-", arch, suffix>>, payload |-> payload]
\* A Windows installer file suxiaoban-<v>-setup.exe.zip.
WinFile(v) == <<"suxiaoban-", v, "-setup.exe.zip">>
\* An installer whose name holds two dotted triples.
WinFile2 == <<"suxiaoban-", "3.4.5", "-build-", "9.8.7", "-setup.exe.zip">>

\* ------------------------------------------------- the states a run starts in
\* The request and the filesystem are drawn from families of cases; each family
\* varies the inputs one group of operations depends on and fixes the others.

\* Dates: valid, with separators, too short, empty, valid with a newline after it.
ValidDate == <<"2", "0", "2", "3", "1", "2", "1", "6">>
DateInputs ==
  { ValidDate,
    <<"2", "0", "2", "4", "0", "1", "0", "1">>,
    <<"2", "0", "2", "4", "-", "0", "1", "-", "0", "1">>,
    <<"2", "0", "2", "4", "0", "1">>,
    <<>>,
    ValidDate \o <<"\n">> }
VersionInputs == {"", "1.2.27", "10.0.1"}

PlatformLists == UNION { [1..n -> PlatformIds] : n \in 0..MaxPlats }

SourceStates == {"none", "nopayload", "ok"}
PkgEntry(arch, st) == IF st = "none" THEN <<>> ELSE <<PkgDir(arch, "", st = "ok")>>
PkgListing(stLinux, stMac) == PkgEntry("linux-x64", stLinux) \o PkgEntry("mac-arm64", stMac)
FullPkg ==
  << PkgDir("linux-arm64", "", TRUE), PkgDir("linux-x64", "", TRUE),
     PkgDir("mac-arm64", "", TRUE), PkgDir("mac-intel-x64", "", TRUE) >>
WinListings == { <<>>, <<WinFile("3.4.5")>>, <<WinFile("beta")>>, <<WinFile2>> }

AllFree == [d \in Dirs |-> "free"]
\* The working directory: which tracked directories exist; an existing output
\* directory holds a stale file, an existing staging directory may hold one.
FsInits ==
  { [dirs |-> rel \cup up, groups |-> {},
     files |-> (IF "out" \in rel THEN {StaleOut} ELSE {}) \cup st] :
       rel \in SUBSET ReleaseDirs,
       up \in {{}, {"up"}},
       st \in {{}, {StaleUp}} }
FsOk(f) == \A x \in f.files : x.dir \in f.dirs
\* At most one existing directory resists removal.
LockInits(f) ==
  {AllFree} \cup { [AllFree EXCEPT ![d] = k] : d \in f.dirs, k \in {"perm", "busy"} }
FreshFs == [dirs |-> {}, groups |-> {}, files |-> {}]
FullFs == [dirs |-> Dirs, groups |-> {}, files |-> {StaleOut, StaleUp}]

\* The destination file of a safe_copy call: its content ("none" when the file
\* does not exist, "old", "part" for a partial write, "src" for the source's
\* content), its read-only attribute, and what keeps the caller from it: "acl"
\* (owned by another user), "busy" (held open by another program), "foreign"
\* (on a POSIX system: owned by another user but writable by all, in a
\* directory with the sticky bit).
Absent == [data |-> "none", mode |-> "rw", hold |-> "free"]
FaultOps == {"mkdir", "mkstemp", "copy2", "replace", "rmtmp", "copy", "tools"}
NoFaults == [o \in FaultOps |-> "ok"]
\* No safe_copy call is followed step by step.
NoCopy ==
  /\ dstfile = Absent /\ dstfile0 = Absent /\ tmpfile = "none"
  /\ faults = NoFaults /\ pending = "none" /\ cmds = <<>> /\ killed = FALSE

\* A machine on which every tool is there and works.
FullEnv == [username |-> TRUE, handle |-> "pids", taskkill |-> TRUE, movefile |-> TRUE]
\* An environment without USERNAME and without a login name to fall back on.
NoUserEnv == [FullEnv EXCEPT !.username = FALSE]
\* No removal operation is followed step by step.
NoRemoval ==
  /\ fn = "none" /\ listable = TRUE /\ names = <<>> /\ names0 = <<>>
  /\ ni = 1 /\ count = 0 /\ env = FullEnv /\ scheduled = FALSE

\* No rename option is given.
NoOpts == [prefix |-> "", suffix |-> "", replace |-> <<>>, regex |-> "none",
           sequence |-> FALSE, verbose |-> FALSE]
\* No batch-rename utility runs.
NoBatch == preview = FALSE /\ opts = NoOpts /\ printed = <<>>

\* The buttons of the older window as create_widgets leaves them, and as
\* execute_release sets them.
IdleButtons == [execute |-> "normal", stop |-> "disabled", simulate |-> "normal"]
RunningButtons == [execute |-> "disabled", stop |-> "normal", simulate |-> "disabled"]
\* The older window is not open.
NoLegacy ==
  /\ is_running = FALSE /\ threads = <<>> /\ buttons = IdleButtons /\ afterq = <<>>
  /\ sim_i = 0 /\ sim_runs = 0 /\ sim0 = FALSE

InitProgram ==
  /\ NoCopy
  /\ fn = "none" /\ listable = TRUE /\ names = <<>> /\ names0 = <<>>
  /\ ni = 1 /\ count = 0 /\ scheduled = FALSE
  /\ env \in (IF locked # AllFree /\ os_name = "nt" THEN {FullEnv, NoUserEnv} ELSE {FullEnv})
  /\ finished = FALSE /\ NoLegacy /\ NoBatch
  /\ pc = "start"
  /\ i = 1 /\ hi = 1 /\ ti = 1
  /\ inflight = <<>> /\ retpc = "none"
  /\ copies = <<>> /\ log = <<>> /\ progress = <<>>
  /\ result = NoResult /\ raised = "none"
  /\ run = 1 /\ log1 = <<>>
  /\ fs0 = fs
  /\ stop0 = stop_event

\* Every version and date, against a populated working directory.
InitValidation ==
  /\ version \in VersionInputs
  /\ date \in DateInputs
  /\ platforms \in {<<>>, <<"linux-x64">>}
  /\ delete_existing \in BOOLEAN /\ clear_upgrade = TRUE /\ dry_run \in BOOLEAN
  /\ stop_event = "none" /\ os_name = "nt"
  /\ pkg = PkgListing("ok", "ok") /\ wins = <<WinFile("3.4.5")>> /\ help = HelpFiles
  /\ fs = FullFs /\ locked = AllFree
  /\ failBudget = 0
  /\ log_callback = "records"

\* Every policy flag against every working directory, locked or not.
InitFrame ==
  /\ version = "1.2.27" /\ date = ValidDate
  /\ platforms \in {<<>>, <<"win-x64", "mac-arm64">>}
  /\ delete_existing \in BOOLEAN /\ clear_upgrade \in BOOLEAN /\ dry_run \in BOOLEAN
  /\ stop_event \in {"none", "set"}
  /\ pkg = PkgListing("ok", "ok") /\ wins = <<WinFile("3.4.5")>> /\ help = HelpFiles
  /\ fs \in {f \in FsInits : FsOk(f)}
  /\ locked \in LockInits(fs)
  /\ os_name \in (IF locked = AllFree THEN {"nt"} ELSE {"nt", "posix"})
  /\ failBudget = 0
  /\ log_callback = "records"

\* Every platform list against every state of the sources, cancellable.
InitSources ==
  /\ version = "1.2.27" /\ date = ValidDate
  /\ platforms \in PlatformLists
  /\ delete_existing = FALSE /\ clear_upgrade = FALSE /\ dry_run \in BOOLEAN
  /\ stop_event = "clear" /\ os_name = "nt"
  /\ \E stLinux \in SourceStates, stMac \in SourceStates : pkg = PkgListing(stLinux, stMac)
  /\ wins \in WinListings
  /\ help = HelpFiles \ {"help-domestic.docx"}
  /\ fs = FreshFs /\ locked = AllFree
  /\ failBudget = 0
  /\ log_callback = "records"

\* Copies that fail, cancellable.
InitFailures ==
  /\ version = "1.2.27" /\ date = ValidDate
  /\ platforms \in {<<"linux-x64">>, <<"win-x64", "mac-arm64">>, <<"linux-x64", "linux-x64">>}
  /\ delete_existing = FALSE /\ clear_upgrade = FALSE /\ dry_run = FALSE
  /\ stop_event = "clear" /\ os_name = "nt"
  /\ pkg = PkgListing("ok", "ok") /\ wins = <<WinFile("3.4.5")>>
  /\ help \in {HelpFiles, {"help-mac-install.docx"}}
  /\ fs = FreshFs /\ locked = AllFree
  /\ failBudget = MaxFail
  /\ log_callback = "records"

\* The five supported platforms in the default order, cancellable.
InitFive ==
  /\ version = "1.2.27" /\ date = ValidDate
  /\ platforms = SupportedPlatforms
  /\ delete_existing = FALSE /\ clear_upgrade = FALSE /\ dry_run \in BOOLEAN
  /\ stop_event = "clear" /\ os_name = "nt"
  /\ pkg \in {FullPkg, PkgListing("ok", "none")}
  /\ wins = <<WinFile("3.4.5")>>
  /\ help = {"releases.json"}
  /\ fs = FreshFs /\ locked = AllFree
  /\ failBudget = 0
  /\ log_callback = "records"

\* Suffixes of package directory names, in lexicographic order.
Suffixes == <<"", "-a", "-b">>
\* The listings os.listdir(pkgpath) may return for two or three directories
\* pkg-linux-x64<suffix>: every choice of suffixes, in every order, each
\* directory with or without the payload.
Listings ==
  { l \in UNION { [1..n -> [name : {<<"pkg-", "linux-x64", x>> : x \in Range(Suffixes)},
                            payload : BOOLEAN]] : n \in 2..3 } :
      \A j, k \in 1..Len(l) : j # k => l[j].name # l[k].name }

\* One platform against several matching package directories, in every
\* listing order.
InitListing ==
  /\ version = "1.2.27" /\ date = ValidDate
  /\ platforms = <<"linux-x64">>
  /\ delete_existing = FALSE /\ clear_upgrade = FALSE /\ dry_run \in BOOLEAN
  /\ stop_event = "none" /\ os_name = "posix"
  /\ pkg \in Listings
  /\ wins = <<>>
  /\ help = {}
  /\ fs = FreshFs /\ locked = AllFree
  /\ failBudget = 0
  /\ log_callback = "records"

\* A log callback that raises on every call, next to one that records, on a
\* run that nothing else disturbs.
InitCallbacks ==
  /\ version = "1.2.27" /\ date = ValidDate
  /\ platforms \in {<<"linux-x64">>, <<"win-x64", "mac-arm64">>}
  /\ delete_existing = FALSE /\ clear_upgrade \in BOOLEAN /\ dry_run \in BOOLEAN
  /\ stop_event = "none" /\ os_name \in {"nt", "posix"}
  /\ pkg = PkgListing("ok", "ok") /\ wins = <<WinFile("3.4.5")>> /\ help = HelpFiles
  /\ fs \in {FreshFs, FullFs} /\ locked = AllFree
  /\ failBudget = 0
  /\ log_callback \in {"records", "raises"}

Init ==
  /\ \/ InitValidation
     \/ InitFrame
     \/ InitSources
     \/ InitFailures
     \/ InitFive
     \/ InitListing
     \/ InitCallbacks
  /\ InitProgram

\* ----------------------------------------------------------------- helpers
Event(level, msg, arg) == [level |-> level, msg |-> msg, arg |-> arg]

\* _log, _progress: hand the event to the caller's callback.
_log(l, level, msg, arg) == Append(l, Event(level, msg, arg))
_progress(pr, p) == Append(pr, p)

\* A stop flag that is never looked at.
NeverStop == FALSE

\* A stopped result that also lists the platforms done so far.
StoppedResultWithList == [status |-> "stopped", platforms |-> SubSeq(platforms, 1, i - 1)]

\* The result of a run that observed the stop flag.
StoppedResult == [status |-> "stopped"]

\* _should_stop: an event was passed and it is set.
_should_stop == stop_event # "none" /\ stop_event = "set"

Return(res) == pc' = "done" /\ result' = res /\ raised' = "none"
Raise(exc) == pc' = "done" /\ result' = NoResult /\ raised' = exc

\* A removal that takes the directory away and leaves its files behind.
RemoveDirKeepFiles(f, d) == [f EXCEPT !.dirs = @ \ {d}]

\* shutil.rmtree(dir) and what is left of the filesystem after it succeeded.
RmtreeOk(d) == locked[d] = "free"
RemoveDir(f, d) ==
  [dirs |-> f.dirs \ {d},
   groups |-> IF d = "out" THEN {} ELSE f.groups,
   files |-> {x \in f.files : x.dir # d}]
\* os.makedirs(dir, exist_ok=True)
MakeDir(f, d) == [f EXCEPT !.dirs = @ \cup {d}]
\* takeown + icacls make a directory without permission removable; one that
\* another program holds open stays. They exist on Windows only.
ToolsUnlock(d) == os_name = "nt" /\ locked[d] = "perm"

\* get_pkg_dirs: the directories of pkgpath whose name starts with "pkg".
get_pkg_dirs == SelectSeq(pkg, LAMBDA e : e.name[1] = "pkg-")
\* get_suxiaoban_setup_files: the files suxiaoban-*-setup.exe.zip of pkgpath.
get_suxiaoban_setup_files ==
  SelectSeq(wins, LAMBDA f : f[1] = "suxiaoban-" /\ f[Len(f)] = "-setup.exe.zip")

RECURSIVE Flatten(_)
Flatten(ss) == IF ss = <<>> THEN <<>> ELSE Head(ss) \o Flatten(Tail(ss))
Names(es) == Flatten([k \in 1..Len(es) |-> es[k].name])

\* delete_matching_release_dirs('.', pattern, dry_run, _log): every directory of
\* the working directory that matches the release pattern is counted; in a dry
\* run it is only logged, otherwise rmtree, then the command-line removal.
\* On Windows the user name is looked up before the commands, outside any try:
\* without one the call raises and the names left are not visited.
\* todo are the matching names still to visit, st = [fs, log, count, raised].
RECURSIVE delete_matching_release_dirs(_, _)
delete_matching_release_dirs(todo, st) ==
  IF todo = <<>> \/ st.raised THEN st
  ELSE
    LET d == Head(todo)
        counted == [st EXCEPT !.count = @ + 1]
        after ==
          IF dry_run
          THEN [counted EXCEPT !.log = _log(@, "info", "dry-delete-dir", <<d>>)]
          ELSE
            LET l1 == _log(counted.log, "info", "try-delete-dir", <<d>>) IN
            IF RmtreeOk(d)
            THEN [counted EXCEPT !.fs = RemoveDir(@, d),
                                 !.log = _log(l1, "success", "deleted", <<d>>)]
            ELSE
              LET l2 == _log(l1, "warning", "rmtree-failed", <<d>>) IN
              IF os_name = "nt" /\ ~env.username
              THEN [counted EXCEPT !.log = l2, !.raised = TRUE]
              ELSE IF ToolsUnlock(d)
              THEN [counted EXCEPT !.fs = RemoveDir(@, d),
                                   !.log = _log(l2, "success", "deleted-by-subprocess", <<d>>)]
              ELSE [counted EXCEPT !.log = _log(l2, "error", "still-exists", <<d>>)]
    IN delete_matching_release_dirs(Tail(todo), after)

\* os.listdir('.') filtered by the pattern ^<product>_.* --.* and isdir.
MatchingDirs(f) ==
  (IF "old" \in f.dirs THEN <<"old">> ELSE <<>>) \o (IF "out" \in f.dirs THEN <<"out">> ELSE <<>>)

\* --------------------------------------------------- create_release, by step
Inputs == <<request, sources, run, log1, onecopy, removal, gui>>

\* Start of the run and input validation.
Validate ==
  /\ pc = "start"
  /\ log' = _log(log, "info", "start", <<>>)
  /\ progress' = _progress(progress, 0)
  /\ IF version = "" THEN Raise("ValueError:version")
     ELSE IF ~DateMatches(date) THEN Raise("ValueError:date")
     ELSE pc' = "scan" /\ UNCHANGED <<result, raised>>
  /\ UNCHANGED <<Inputs, stop_event, failBudget, fs, i, hi, ti, inflight, retpc, copies>>

\* Scan of the package directory.
Scan ==
  /\ pc = "scan"
  /\ LET pkg_dirs == get_pkg_dirs
         l1 == _log(log, "info", "scan", <<"pkgpath">>)
         l2 == _log(l1, "info", "found-pkg-dirs", Names(pkg_dirs))
     IN /\ log' = l2
        /\ IF pkg_dirs = <<>>
           THEN Raise("FileNotFoundError") /\ UNCHANGED progress
           ELSE /\ pc' = "cleanup"
                /\ progress' = _progress(progress, 5)
                /\ UNCHANGED <<result, raised>>
  /\ UNCHANGED <<Inputs, stop_event, failBudget, fs, i, hi, ti, inflight, retpc, copies>>

\* An error of the removal that ends the run.
CleanupUncaught(e) == pc' = "done" /\ result' = NoResult /\ raised' = e

\* except Exception around the removal: the error is logged and the run goes on.
CleanupCaught(e) == pc' = "poll_scan" /\ UNCHANGED <<result, raised>>

\* Removal of the existing release directories, when asked for.
Cleanup ==
  /\ pc = "cleanup"
  /\ IF delete_existing
     THEN LET r == delete_matching_release_dirs(MatchingDirs(fs),
                                                [fs |-> fs, log |-> log, count |-> 0, raised |-> FALSE])
          IN /\ fs' = r.fs
             /\ IF r.raised
                THEN /\ log' = _log(r.log, "error", "cleanup-error", <<>>)
                     /\ CleanupCaught("OSError")
                ELSE /\ log' = _log(r.log, "info", "delete-count", <<ToString(r.count)>>)
                     /\ pc' = "poll_scan" /\ UNCHANGED <<result, raised>>
     ELSE UNCHANGED <<fs, log, result, raised>> /\ pc' = "poll_scan"
  /\ UNCHANGED <<Inputs, stop_event, failBudget, i, hi, ti, inflight, retpc, copies, progress>>

\* First poll of the stop flag.
PollAfterScan ==
  /\ pc = "poll_scan"
  /\ IF _should_stop
     THEN /\ log' = _log(log, "warning", "stopped-after-scan", <<>>)
          /\ Return(StoppedResult)
     ELSE /\ pc' = "staging"
          /\ UNCHANGED <<log, result, raised>>
  /\ UNCHANGED <<Inputs, stop_event, failBudget, fs, i, hi, ti, inflight, retpc, copies, progress>>

\* The staging directory: cleared when asked for, else made sure to exist.
Staging ==
  /\ pc = "staging"
  /\ IF clear_upgrade
     THEN
       LET l1 == _log(log, "warning", IF dry_run THEN "dry-clear-staging" ELSE "clear-staging", <<"up">>) IN
       IF dry_run \/ "up" \notin fs.dirs
       THEN /\ log' = l1 /\ UNCHANGED fs
            /\ pc' = "tree" /\ progress' = _progress(progress, 15)
            /\ UNCHANGED <<result, raised>>
       ELSE IF RmtreeOk("up")
       THEN /\ log' = l1
            /\ fs' = MakeDir(RemoveDir(fs, "up"), "up")
            /\ pc' = "tree" /\ progress' = _progress(progress, 15)
            /\ UNCHANGED <<result, raised>>
       ELSE
         LET l2 == _log(l1, "warning", "staging-permission-error", <<"up">>) IN
         IF os_name = "nt"
         THEN
           LET l3 == _log(_log(l2, "info", "tried-takeown", <<>>), "info", "tried-icacls", <<>>) IN
           IF ToolsUnlock("up")
           THEN /\ log' = _log(l3, "success", "staging-deleted-after-takeown", <<"up">>)
                /\ fs' = MakeDir(RemoveDir(fs, "up"), "up")
                /\ pc' = "tree" /\ progress' = _progress(progress, 15)
                /\ UNCHANGED <<result, raised>>
           ELSE /\ log' = _log(_log(l3, "error", "staging-delete-again-failed", <<"up">>),
                               "error", "staging-cannot-clear", <<"up">>)
                /\ Raise("PermissionError")
                /\ UNCHANGED <<fs, progress>>
         ELSE /\ log' = _log(_log(l2, "error", "staging-no-tools", <<>>),
                             "error", "staging-cannot-clear", <<"up">>)
              /\ Raise("PermissionError")
              /\ UNCHANGED <<fs, progress>>
     ELSE /\ fs' = MakeDir(fs, "up")
          /\ pc' = "tree" /\ progress' = _progress(progress, 15)
          /\ UNCHANGED <<log, result, raised>>
  /\ UNCHANGED <<Inputs, stop_event, failBudget, i, hi, ti, inflight, retpc, copies>>

\* The log of the three MKDIR lines, in the order of targets.
RECURSIVE LogTargets(_, _, _)
LogTargets(l, ts, dry) ==
  IF ts = <<>> THEN l
  ELSE LogTargets(IF dry THEN _log(l, "info", "dry-mkdir", <<"out", Head(ts)>>)
                         ELSE _log(l, "success", "mkdir", <<"out", Head(ts)>>),
                  Tail(ts), dry)

MakeTargets(f) == [f EXCEPT !.dirs = @ \cup {"out"}, !.groups = @ \cup Range(targets)]

\* A policy that never refuses an existing output directory.
FailFastNever(exists) == FALSE

\* The existing output directory is refused: delete_existing is off.
FailFast(exists) == exists /\ ~delete_existing

\* The output directory and its three group subdirectories.
Tree ==
  /\ pc = "tree"
  /\ LET exists == "out" \in fs.dirs
         l1 == IF exists THEN _log(log, "warning", "out-exists", <<"out">>) ELSE log
         l2 == IF exists
               THEN _log(l1, "warning", IF dry_run THEN "dry-delete-out" ELSE "delete-out", <<"out">>)
               ELSE l1
     IN IF FailFast(exists)
        THEN /\ log' = l1
             /\ Raise("FileExistsError")
             /\ UNCHANGED fs
        ELSE IF exists /\ ~dry_run /\ ~RmtreeOk("out")
        THEN /\ log' = l2
             /\ Raise("PermissionError")
             /\ UNCHANGED fs
        ELSE /\ log' = LogTargets(l2, targets, dry_run)
             /\ fs' = IF dry_run THEN fs
                      ELSE MakeTargets(IF exists THEN RemoveDir(fs, "out") ELSE fs)
             /\ pc' = "poll_tree"
             /\ UNCHANGED <<result, raised>>
  /\ UNCHANGED <<Inputs, stop_event, failBudget, i, hi, ti, inflight, retpc, copies, progress>>

\* list(x): a copy of the list.
list(x) == x

\* selected_platforms, total_plats
selected_platforms == list(platforms)
total_plats == Len(selected_platforms)

\* Second poll of the stop flag, then the check of the platform list.
PollAfterTree ==
  /\ pc = "poll_tree"
  /\ IF _should_stop
     THEN /\ log' = _log(log, "warning", "stopped-after-tree", <<>>)
          /\ Return(StoppedResult)
          /\ UNCHANGED <<progress, i>>
     ELSE /\ progress' = _progress(progress, start_pct)
          /\ UNCHANGED log
          /\ IF total_plats = 0
             THEN Raise("ValueError:platforms") /\ UNCHANGED i
             ELSE pc' = "plat_poll" /\ i' = 1 /\ UNCHANGED <<result, raised>>
  /\ UNCHANGED <<Inputs, stop_event, failBudget, fs, hi, ti, inflight, retpc, copies>>

\* A percentage that is not scaled by the number of platforms.
pctUnscaled(k) == start_pct + (k - 1) * (end_pct - start_pct)

\* pct = int(start_pct + (i - 1) / total_plats * (end_pct - start_pct))
pct(k) == start_pct + ((k - 1) * (end_pct - start_pct)) \div total_plats

\* The first entry of os.listdir(pkgpath) that is a directory named pkg-<arch>...,
\* as an index of the listing, 0 when there is none.
FirstMatch(arch) ==
  LET hits == {k \in 1..Len(pkg) : pkg[k].name[1] = "pkg-" /\ pkg[k].name[2] = arch}
  IN IF hits = {} THEN 0 ELSE CHOOSE k \in hits : \A m \in hits : k <= m

Task(role, k, src, dst) == [role |-> role, plat |-> k, src |-> src, dst |-> dst]

\* The last triple of the name instead of the first.
win_version_last(win_file) ==
  LET m == FindTriples(win_file) IN IF m # <<>> THEN m[Len(m)] ELSE version

\* win_version = m[0] if m else version
win_version(win_file) ==
  LET m == FindTriples(win_file) IN IF m # <<>> THEN m[1] ELSE version

\* The source of platform number k of the request, <<>> when there is none.
PlatformSource(k) ==
  LET p == selected_platforms[k] IN
  IF p = "win-x64"
  THEN LET ws == get_suxiaoban_setup_files IN
       IF ws # <<>> THEN <<"pkgpath">> \o ws[1] ELSE <<>>
  ELSE IF p \notin DOMAIN arch_map THEN <<>>
  ELSE LET d == FirstMatch(arch_map[p].arch) IN
       IF d # 0 /\ pkg[d].payload THEN <<"pkgpath">> \o pkg[d].name \o <<"payload.zip">> ELSE <<>>

\* The release-artifact copy of platform number k.
ReleaseTask(k) ==
  LET p == selected_platforms[k] IN
  IF p = "win-x64"
  THEN LET v == win_version(get_suxiaoban_setup_files[1]) IN
       Task("release", k, PlatformSource(k), Path("out", "win", new_filename(v, date, "win-x64")))
  ELSE Task("release", k, PlatformSource(k),
            Path("out", arch_map[p].target_dir, new_filename(version, date, arch_map[p].arch)))

\* The staging-artifact copy of platform number k.
StagingTask(k) ==
  LET p == selected_platforms[k] IN
  IF p = "win-x64"
  THEN LET v == win_version(get_suxiaoban_setup_files[1]) IN
       Task("staging", k, PlatformSource(k), Path("up", "", upgrade_name_win(v)))
  ELSE Task("staging", k, PlatformSource(k), Path("up", "", upgrade_name(version, arch_map[p].arch)))

\* The staging copy made before the release copy.
PlatformCopiesSwapped(k) == <<StagingTask(k), ReleaseTask(k)>>

\* The two copies of a platform in the order the loop body makes them.
PlatformCopies(k) == <<ReleaseTask(k), StagingTask(k)>>

HasSource(k) == PlatformSource(k) # <<>>
RECURSIVE ProcessedFrom(_)
ProcessedFrom(k) ==
  IF k > Len(platforms) THEN <<>>
  ELSE (IF HasSource(k) THEN <<platforms[k]>> ELSE <<>>) \o ProcessedFrom(k + 1)
\* The requested platforms for which a source was found, in order.
Processed == ProcessedFrom(1)

\* A summary that lists only the platforms a source was found for.
SummaryProcessed ==
  [out_dir |-> new_dir_name(version, date),
   platforms |-> Processed,
   dry_run |-> dry_run]

\* A summary that also tells whether a copy failed.
SummaryWithFailures ==
  [out_dir |-> new_dir_name(version, date),
   platforms |-> list(selected_platforms),
   dry_run |-> dry_run,
   failed |-> \E k \in 1..Len(copies) : ~copies[k].ok]

\* The summary a completed run returns.
Summary ==
  [out_dir |-> new_dir_name(version, date),
   platforms |-> list(selected_platforms),
   dry_run |-> dry_run]

\* Top of the platform loop: the end of the loop, or the poll of the stop flag.
PlatPoll ==
  /\ pc = "plat_poll"
  /\ IF i > total_plats
     THEN /\ progress' = _progress(progress, 85)
          /\ pc' = "docs" /\ hi' = 1 /\ ti' = 1
          /\ UNCHANGED <<log, result, raised>>
     ELSE IF _should_stop
     THEN /\ log' = _log(log, "warning", "stopped-in-platforms", <<>>)
          /\ Return(StoppedResult)
          /\ UNCHANGED <<progress, hi, ti>>
     ELSE /\ progress' = _progress(progress, pct(i))
          /\ log' = _log(log, "info", "platform", <<selected_platforms[i]>>)
          /\ pc' = "plat_body"
          /\ UNCHANGED <<result, raised, hi, ti>>
  /\ UNCHANGED <<Inputs, stop_event, failBudget, fs, i, inflight, retpc, copies>>

\* A call that is skipped when the destination file is already there.
CallSafeCopyUnlessExists(t, ret) ==
  IF \E x \in fs.files : x.dir = t.dst.dir /\ x.sub = t.dst.sub /\ x.name = t.dst.name
  THEN pc' = ret /\ UNCHANGED <<inflight, retpc>>
  ELSE inflight' = <<t>> /\ retpc' = ret /\ pc' = "safe_copy"

\* The call of safe_copy for task t, returning to pc value ret.
CallSafeCopy(t, ret) == inflight' = <<t>> /\ retpc' = ret /\ pc' = "safe_copy"

\* A loop that ends at the first platform it has to skip.
AfterSkipBreak == "docs"

\* Where the loop goes for a platform it skips (no installer, unknown
\* identifier, no matching directory, no payload): on to the next platform.
AfterSkip == "plat_next"

\* Body of the platform loop up to the first copy.
PlatBody ==
  /\ pc = "plat_body"
  /\ LET p == selected_platforms[i] IN
     IF p = "win-x64"
     THEN IF get_suxiaoban_setup_files # <<>>
          THEN CallSafeCopy(PlatformCopies(i)[1], "plat_second") /\ UNCHANGED log
          ELSE /\ log' = _log(log, "warning", "no-windows-installer", <<>>)
               /\ pc' = AfterSkip /\ UNCHANGED <<inflight, retpc>>
     ELSE IF p \notin DOMAIN arch_map
     THEN /\ log' = _log(log, "warning", "unknown-platform", <<p>>)
          /\ pc' = AfterSkip /\ UNCHANGED <<inflight, retpc>>
     ELSE LET d == FirstMatch(arch_map[p].arch) IN
          IF d = 0
          THEN pc' = AfterSkip /\ UNCHANGED <<log, inflight, retpc>>
          ELSE IF pkg[d].payload
          THEN CallSafeCopy(PlatformCopies(i)[1], "plat_second") /\ UNCHANGED log
          ELSE /\ log' = _log(log, "warning", "source-missing", pkg[d].name)
               /\ pc' = AfterSkip /\ UNCHANGED <<inflight, retpc>>
  /\ UNCHANGED <<Inputs, stop_event, failBudget, fs, i, hi, ti, copies, progress, result, raised>>

\* The second copy of the platform.
PlatSecond ==
  /\ pc = "plat_second"
  /\ CallSafeCopy(PlatformCopies(i)[2], "plat_next")
  /\ UNCHANGED <<Inputs, stop_event, failBudget, fs, i, hi, ti, copies, log, progress, result, raised>>

\* Next iteration of the platform loop.
PlatNext ==
  /\ pc = "plat_next"
  /\ i' = i + 1
  /\ pc' = "plat_poll"
  /\ UNCHANGED <<Inputs, stop_event, failBudget, fs, hi, ti, inflight, retpc, copies, log,
                 progress, result, raised>>

\* ------------------------------------------------------------------ safe_copy
FileAt(f, dst) == {x \in f.files : x.dir = dst.dir /\ x.sub = dst.sub /\ x.name = dst.name}

\* os.makedirs(os.path.dirname(dst), exist_ok=True)
MakeParent(f, dst) ==
  [f EXCEPT !.dirs = @ \cup {dst.dir},
            !.groups = IF dst.sub = "" THEN @ ELSE @ \cup {dst.sub}]

\* The filesystem after safe_copy(src, dst) ended with the given outcome: "ok", the
\* destination holds the source's content; "fail", it is as before; "fail_removed",
\* the old destination was removed for a retry that failed too.
CopyEffect(f, t, outcome) ==
  LET g == MakeParent(f, t.dst)
      old == FileAt(g, t.dst)
  IN CASE outcome = "ok" ->
            [g EXCEPT !.files = (@ \ old) \cup {File(t.dst.dir, t.dst.sub, t.dst.name, t.src)}]
       [] outcome = "fail" -> g
       [] outcome = "fail_removed" -> [g EXCEPT !.files = @ \ old]

\* The outcomes the filesystem may give a real copy.
CopyOutcomes(t) ==
  {"ok"} \cup (IF failBudget > 0
               THEN {"fail"} \cup (IF FileAt(fs, t.dst) # {} THEN {"fail_removed"} ELSE {})
               ELSE {})

\* A caller that gives up on the remaining copies when one fails.
AfterCopyAbort(ok, ret) == IF ok THEN ret ELSE "finalize"

\* Where the caller continues after safe_copy returned ok: it ignores the value.
AfterCopy(ok, ret) == ret

\* safe_copy is handed log_callback itself and calls it outside any handler
\* that would swallow its exception: when the callback raises, the exception
\* leaves safe_copy and create_release.
SafeCopyLogs(next) ==
  IF log_callback = "raises" THEN Raise("CallbackError")
  ELSE pc' = next /\ UNCHANGED <<result, raised>>

\* The calls that returned: one that the callback's exception ended has not.
Returns(cs, c) == IF log_callback = "raises" THEN cs ELSE Append(cs, c)

\* safe_copy(src, dst, dry_run, log_callback), from the call to the return.
\* Every path logs once after it has acted on the file.
SafeCopy ==
  /\ pc = "safe_copy"
  /\ LET t == inflight[1] IN
     IF dry_run
     THEN /\ log' = _log(log, "info", "dry-copy", t.src)
          /\ copies' = Returns(copies, [task |-> t, ok |-> TRUE])
          /\ SafeCopyLogs(AfterCopy(TRUE, retpc))
          /\ UNCHANGED <<fs, failBudget>>
     ELSE \E outcome \in CopyOutcomes(t) :
          /\ fs' = CopyEffect(fs, t, outcome)
          /\ failBudget' = IF outcome = "ok" THEN failBudget ELSE failBudget - 1
          /\ log' = IF outcome = "ok" THEN _log(log, "success", "copy", t.src)
                    ELSE _log(log, "error", "copy-failed", t.src)
          /\ copies' = Returns(copies, [task |-> t, ok |-> outcome = "ok"])
          /\ SafeCopyLogs(AfterCopy(outcome = "ok", retpc))
  /\ inflight' = <<>>
  /\ retpc' = "none"
  /\ UNCHANGED <<Inputs, stop_event, i, hi, ti, progress>>

\* ------------------------------------------------------------ documentation
DocTask(h, t) ==
  Task("doc", 0, <<"helppath", help_items[h].hf>>,
       Path("out", help_items[h].targets[t], <<help_items[h].hf>>))
ReleasesTask == Task("releases", 0, <<"helppath", "releases.json">>, Path("up", "", <<"releases.json">>))

\* One step of the loops over help_items and their targets.
Docs ==
  /\ pc = "docs"
  /\ IF hi > Len(help_items)
     THEN pc' = "releases" /\ UNCHANGED <<log, hi, ti, inflight, retpc>>
     ELSE IF help_items[hi].hf \in help
     THEN CallSafeCopy(DocTask(hi, ti), "docs_next") /\ UNCHANGED <<log, hi, ti>>
     ELSE /\ log' = _log(log, "warning", "help-missing", <<help_items[hi].hf>>)
          /\ hi' = hi + 1 /\ ti' = 1
          /\ UNCHANGED <<pc, inflight, retpc>>
  /\ UNCHANGED <<Inputs, stop_event, failBudget, fs, i, copies, progress, result, raised>>

\* After a documentation copy: the next target, or the next document.
DocsNext ==
  /\ pc = "docs_next"
  /\ IF ti < Len(help_items[hi].targets)
     THEN ti' = ti + 1 /\ UNCHANGED hi
     ELSE hi' = hi + 1 /\ ti' = 1
  /\ pc' = "docs"
  /\ UNCHANGED <<Inputs, stop_event, failBudget, fs, i, inflight, retpc, copies, log,
                 progress, result, raised>>

\* releases.json, copied to the staging directory when present.
Releases ==
  /\ pc = "releases"
  /\ IF "releases.json" \in help
     THEN CallSafeCopy(ReleasesTask, "finalize")
     ELSE pc' = "finalize" /\ UNCHANGED <<inflight, retpc>>
  /\ UNCHANGED <<Inputs, stop_event, failBudget, fs, i, hi, ti, copies, log, progress,
                 result, raised>>

\* The end of a completed run.
Finalize ==
  /\ pc = "finalize"
  /\ progress' = _progress(_progress(progress, 95), 100)
  /\ log' = _log(log, "success", "finished", <<>>)
  /\ Return(Summary)
  /\ UNCHANGED <<Inputs, stop_event, failBudget, fs, i, hi, ti, inflight, retpc, copies>>

\* ------------------------------------------------------------ the caller
\* stop_event.set(), from the caller's thread, at any moment of the run.
SetStop ==
  /\ stop_event = "clear"
  /\ pc # "done"
  /\ stop_event' = "set"
  /\ UNCHANGED <<Inputs, failBudget, fs, pc, i, hi, ti, inflight, retpc, copies, log,
                 progress, result, raised>>

\* The caller runs the same dry run a second time, on the filesystem the first
\* one left, when no cancellation is in play.
Rerun ==
  /\ pc = "done"
  /\ dry_run
  /\ run = 1
  /\ stop_event = "none"
  /\ run' = 2
  /\ log1' = log
  /\ pc' = "start"
  /\ i' = 1 /\ hi' = 1 /\ ti' = 1
  /\ copies' = <<>> /\ log' = <<>> /\ progress' = <<>>
  /\ result' = NoResult /\ raised' = "none"
  /\ finished' = FALSE
  /\ UNCHANGED <<request, sources, stop_event, failBudget, fs, inflight, retpc, onecopy, removal,
                 legacy, batch>>

\* ReleaseGUI._on_finish, scheduled by the worker thread's finally clause once
\* create_release has returned or raised: the progress bar is set to 100.
OnFinish ==
  /\ pc = "done"
  /\ ~finished
  /\ finished' = TRUE
  /\ UNCHANGED <<request, sources, run, log1, onecopy, removal, legacy, batch, stop_event, failBudget,
                 fs, pc, i, hi, ti, inflight, retpc, copies, log, progress, result, raised>>

Next ==
  \/ Validate \/ Scan \/ Cleanup \/ PollAfterScan \/ Staging \/ Tree \/ PollAfterTree
  \/ PlatPoll \/ PlatBody \/ PlatSecond \/ PlatNext \/ SafeCopy
  \/ Docs \/ DocsNext \/ Releases \/ Finalize
  \/ SetStop \/ Rerun \/ OnFinish

Spec == Init /\ [][Next]_vars

\* --------------------------------------------- safe_copy, one call step by step
\* A second specification follows one real or simulated call safe_copy(src, dst)
\* through its operating-system calls, any of which may fail, with the process
\* liable to be interrupted between any two of them.

\* Most operations that fail for a reason outside the destination file itself.
MaxFaults == 2

DstInits ==
  {Absent} \cup [data : {"old"}, mode : {"rw", "ro"}, hold : {"free", "acl", "busy"}]
\* Another user's file in a sticky directory, open to all for writing.
ForeignDst == [data |-> "old", mode |-> "rw", hold |-> "foreign"]
FaultInits ==
  { f \in [FaultOps -> {"ok", "perm", "err"}] :
      Cardinality({o \in FaultOps : f[o] # "ok"}) <= MaxFaults }

CopyInit ==
  /\ version = "1.2.27" /\ date = ValidDate
  /\ platforms = <<"linux-x64">>
  /\ delete_existing = FALSE /\ clear_upgrade = FALSE /\ dry_run \in BOOLEAN
  /\ stop_event = "none" /\ os_name \in {"nt", "posix"}
  /\ pkg = PkgListing("ok", "none") /\ wins = <<>> /\ help = {}
  /\ fs = FreshFs /\ fs0 = FreshFs /\ locked = AllFree
  /\ stop0 = stop_event /\ log_callback = "records"
  /\ failBudget = 0
  /\ i = 1 /\ hi = 1 /\ ti = 1
  /\ inflight = <<>> /\ retpc = "none"
  /\ copies = <<>> /\ log = <<>> /\ progress = <<>>
  /\ result = NoResult /\ raised = "none"
  /\ run = 1 /\ log1 = <<>>
  /\ NoRemoval /\ finished = FALSE /\ NoLegacy /\ NoBatch
  /\ pc = "sc_entry"
  /\ dstfile \in DstInits \cup (IF os_name = "posix" THEN {ForeignDst} ELSE {})
  /\ dstfile0 = dstfile
  /\ tmpfile = "none"
  /\ faults \in FaultInits
  /\ pending = "none" /\ cmds = <<>> /\ killed = FALSE

\* What one safe_copy call leaves alone.
CopyFrame ==
  UNCHANGED <<request, sources, stop_event, failBudget, fs, i, hi, ti, inflight, retpc,
              copies, progress, raised, run, log1, dstfile0, faults, removal, gui>>

\* return True / return False
ScReturn(v) == pc' = "sc_done" /\ result' = [returned |-> v]

Exists(d) == d.data # "none"
Writable(d) == d.mode = "rw" /\ d.hold = "free"
\* os.replace(tmp, dst): Windows refuses to replace a file that is read-only or
\* that the caller may not touch; elsewhere only the directory matters, and a
\* sticky directory keeps another user's file in place.
CanReplace(d) == ~Exists(d) \/ (os_name = "posix" /\ d.hold # "foreign") \/ Writable(d)
\* A chmod that never takes effect.
CannotChmod(d) == FALSE
\* os.chmod(dst, stat.S_IWRITE) takes effect on a file the caller owns.
CanChmod(d) == d.hold \notin {"acl", "foreign"}
chmod(d) == IF CanChmod(d) THEN [d EXCEPT !.mode = "rw"] ELSE d
\* os.remove(dst): as os.replace.
CanRemove(d) == (os_name = "posix" /\ d.hold # "foreign") \/ Writable(d)
\* open(dst, 'wb') of shutil.copy: a new file, or one that is writable.
CanOpenForWrite(d) ==
  \/ ~Exists(d)
  \/ d.mode = "rw" /\ (d.hold = "free" \/ (os_name = "posix" /\ d.hold = "busy"))
  \/ d.mode = "rw" /\ d.hold = "foreign"

\* The outcome of os.replace(tmp_name, dst).
ReplaceOutcome ==
  IF faults["replace"] # "ok" THEN faults["replace"]
  ELSE IF CanReplace(dstfile) THEN "ok" ELSE "perm"

\* The content os.replace moves onto the destination.
TmpContent == IF tmpfile = "full" THEN "src" ELSE "part"

\* A copy2 that writes the source's bytes straight into the destination.
copy2_into_dst(d, t, stage) ==
  [dst |-> [d EXCEPT !.data = IF stage = "full" THEN "src" ELSE "part"], tmp |-> t]

\* shutil.copy2(src, tmp_name), at stage "part" (bytes being written) and "full"
\* (all bytes written): the bytes go to the temporary file.
copy2(d, t, stage) == [dst |-> d, tmp |-> stage]

\* A direct copy that reports success although it wrote only a part.
copy_part_ok(d) ==
  IF ~CanOpenForWrite(d) THEN {[dst |-> d, ok |-> FALSE]}
  ELSE {[dst |-> [d EXCEPT !.data = "part"], ok |-> TRUE]}

\* shutil.copy(src, dst), copyfile then copymode: the destinations it may
\* leave, with its outcome. On another user's file the bytes are written and
\* the chmod of copymode is refused.
copy(d) ==
  IF ~CanOpenForWrite(d) THEN {[dst |-> d, ok |-> FALSE]}
  ELSE IF faults["copy"] # "ok"
  THEN {[dst |-> d, ok |-> FALSE], [dst |-> [d EXCEPT !.data = "part"], ok |-> FALSE]}
  ELSE IF d.hold = "foreign" THEN {[dst |-> [d EXCEPT !.data = "src"], ok |-> FALSE]}
  ELSE {[dst |-> [d EXCEPT !.data = "src"], ok |-> TRUE]}

\* Entry: the dry run, then os.makedirs of the destination's directory.
ScEntry ==
  /\ pc = "sc_entry" /\ ~killed
  /\ IF dry_run
     THEN log' = _log(log, "info", "dry-copy", <<>>) /\ ScReturn(TRUE)
     ELSE IF faults["mkdir"] # "ok"
     THEN log' = _log(log, "error", "mkdir-failed", <<>>) /\ ScReturn(FALSE)
     ELSE pc' = "sc_mkstemp" /\ UNCHANGED <<log, result>>
  /\ UNCHANGED <<dstfile, tmpfile, pending, cmds, killed>>
  /\ CopyFrame

\* tempfile.mkstemp(dir=dst_dir, prefix='.tmp_copy_')
ScMkstemp ==
  /\ pc = "sc_mkstemp" /\ ~killed
  /\ IF faults["mkstemp"] = "ok"
     THEN tmpfile' = "empty" /\ pc' = "sc_copy2" /\ UNCHANGED pending
     ELSE pending' = faults["mkstemp"] /\ pc' = "sc_except" /\ UNCHANGED tmpfile
  /\ UNCHANGED <<dstfile, log, result, cmds, killed>>
  /\ CopyFrame

\* shutil.copy2(src, tmp_name) starts writing, or fails before it wrote.
ScCopy2 ==
  /\ pc = "sc_copy2" /\ ~killed
  /\ \E early \in (IF faults["copy2"] = "ok" THEN {FALSE} ELSE BOOLEAN) :
       IF early
       THEN pending' = faults["copy2"] /\ pc' = "sc_cleanup" /\ UNCHANGED <<dstfile, tmpfile>>
       ELSE LET w == copy2(dstfile, tmpfile, "part") IN
            /\ dstfile' = w.dst /\ tmpfile' = w.tmp
            /\ pc' = "sc_copy2_end" /\ UNCHANGED pending
  /\ UNCHANGED <<log, result, cmds, killed>>
  /\ CopyFrame

\* shutil.copy2(src, tmp_name) writes the last bytes, or fails half way.
ScCopy2End ==
  /\ pc = "sc_copy2_end" /\ ~killed
  /\ IF faults["copy2"] = "ok"
     THEN LET w == copy2(dstfile, tmpfile, "full") IN
          /\ dstfile' = w.dst /\ tmpfile' = w.tmp
          /\ pc' = "sc_replace" /\ UNCHANGED pending
     ELSE pending' = faults["copy2"] /\ pc' = "sc_cleanup" /\ UNCHANGED <<dstfile, tmpfile>>
  /\ UNCHANGED <<log, result, cmds, killed>>
  /\ CopyFrame

\* os.replace(tmp_name, dst)
ScReplace ==
  /\ pc = "sc_replace" /\ ~killed
  /\ IF ReplaceOutcome = "ok"
     THEN /\ dstfile' = [data |-> TmpContent, mode |-> "rw", hold |-> "free"]
          /\ tmpfile' = "none"
          /\ log' = _log(log, "success", "copy-via-tmp", <<>>)
          /\ ScReturn(TRUE)
          /\ UNCHANGED pending
     ELSE /\ pending' = ReplaceOutcome
          /\ pc' = "sc_cleanup"
          /\ UNCHANGED <<dstfile, tmpfile, log, result>>
  /\ UNCHANGED <<cmds, killed>>
  /\ CopyFrame

\* A handler that leaves the temporary file where it is.
keep_tmp(t) == t

\* os.remove(tmp_name) in the handlers, its own failure passed over.
remove_tmp(t) == IF faults["rmtmp"] = "ok" THEN "none" ELSE t

\* The handlers that remove the temporary file and raise again.
ScCleanup ==
  /\ pc = "sc_cleanup" /\ ~killed
  /\ tmpfile' = remove_tmp(tmpfile)
  /\ pc' = "sc_except"
  /\ UNCHANGED <<dstfile, pending, log, result, cmds, killed>>
  /\ CopyFrame

\* except PermissionError / except Exception
ScExcept ==
  /\ pc = "sc_except" /\ ~killed
  /\ IF pending = "perm"
     THEN /\ log' = _log(log, "warning", "permission-error", <<>>)
          /\ pc' = "sc_fallback" /\ UNCHANGED result
     ELSE /\ log' = _log(log, "error", "copy-error", <<>>)
          /\ ScReturn(FALSE)
  /\ pending' = "none"
  /\ UNCHANGED <<dstfile, tmpfile, cmds, killed>>
  /\ CopyFrame

\* The read-only bit of an existing destination is cleared and the file removed.
ScFallback ==
  /\ pc = "sc_fallback" /\ ~killed
  /\ IF Exists(dstfile)
     THEN IF CanRemove(chmod(dstfile))
          THEN dstfile' = Absent /\ log' = _log(log, "info", "removed-dst", <<>>)
          ELSE dstfile' = chmod(dstfile) /\ log' = _log(log, "warning", "remove-failed", <<>>)
     ELSE UNCHANGED <<dstfile, log>>
  /\ pc' = "sc_retry"
  /\ UNCHANGED <<tmpfile, pending, result, cmds, killed>>
  /\ CopyFrame

\* Ownership tools looked for on every system.
OwnershipToolsAnywhere == TRUE

\* if os.name == 'nt': takeown and icacls exist on Windows only.
OwnershipTools == os_name = "nt"

\* The direct copy after the removal attempt.
ScRetry ==
  /\ pc = "sc_retry" /\ ~killed
  /\ \E r \in copy(dstfile) :
       /\ dstfile' = r.dst
       /\ IF r.ok
          THEN log' = _log(log, "success", "copy-after-remove", <<>>) /\ ScReturn(TRUE)
          ELSE IF OwnershipTools
          THEN pc' = "sc_tools" /\ UNCHANGED <<log, result>>
          ELSE log' = _log(log, "error", "copy-failed-no-tools", <<>>) /\ ScReturn(FALSE)
  /\ UNCHANGED <<tmpfile, pending, cmds, killed>>
  /\ CopyFrame

\* Windows: takeown, then icacls granting the user full control.
ScTools ==
  /\ pc = "sc_tools" /\ ~killed
  /\ IF faults["tools"] # "ok"
     THEN /\ log' = _log(log, "error", "tools-failed", <<>>)
          /\ ScReturn(FALSE)
          /\ UNCHANGED <<dstfile, cmds>>
     ELSE /\ cmds' = cmds \o <<"takeown", "icacls">>
          /\ dstfile' = IF dstfile.hold = "acl" THEN [dstfile EXCEPT !.hold = "free"] ELSE dstfile
          /\ log' = IF Exists(dstfile)
                    THEN _log(_log(log, "info", "takeown-stdout", <<>>), "info", "icacls-stdout", <<>>)
                    ELSE _log(_log(log, "warning", "takeown-stderr", <<>>), "warning", "icacls-stderr", <<>>)
          /\ pc' = "sc_final" /\ UNCHANGED result
  /\ UNCHANGED <<tmpfile, pending, killed>>
  /\ CopyFrame

\* The last removal and the last direct copy.
ScFinal ==
  /\ pc = "sc_final" /\ ~killed
  /\ LET removed == Exists(dstfile) /\ CanRemove(chmod(dstfile))
         d1 == IF ~Exists(dstfile) THEN dstfile
               ELSE IF removed THEN Absent ELSE chmod(dstfile)
         l1 == IF Exists(dstfile) /\ ~removed
               THEN _log(log, "warning", "remove-again-failed", <<>>) ELSE log
     IN \E r \in copy(d1) :
          /\ dstfile' = r.dst
          /\ log' = IF r.ok THEN _log(l1, "success", "copy-after-tools", <<>>)
                    ELSE _log(l1, "error", "copy-final-failed", <<>>)
          /\ ScReturn(r.ok)
  /\ UNCHANGED <<tmpfile, pending, cmds, killed>>
  /\ CopyFrame

\* The process is interrupted between two steps of the call.
Kill ==
  /\ pc \in {"sc_entry", "sc_mkstemp", "sc_copy2", "sc_copy2_end", "sc_replace", "sc_cleanup",
             "sc_except", "sc_fallback", "sc_retry", "sc_tools", "sc_final"}
  /\ ~killed
  /\ killed' = TRUE
  /\ UNCHANGED <<pc, dstfile, tmpfile, pending, log, result, cmds>>
  /\ CopyFrame

CopyNext ==
  \/ ScEntry \/ ScMkstemp \/ ScCopy2 \/ ScCopy2End \/ ScReplace \/ ScCleanup \/ ScExcept
  \/ ScFallback \/ ScRetry \/ ScTools \/ ScFinal
  \/ Kill

CopySpec == CopyInit /\ [][CopyNext]_vars

\* ------------------------------------------ the removal tools, step by step
\* A third specification follows one call of a removal operation: the batch
\* removals delete_matching_release_dirs and remove_prefix_dirs_subprocess over
\* the entries of their base directory, and the forced removal on_force_delete
\* of one directory the operator picked.

\* Most entries in the base directory of a batch removal.
MaxEntries == 2

\* An entry of the base directory: does its name match the pattern or prefix,
\* is it a directory, what keeps it from being removed, is it still there.
Entry(match, isdir, lock) == [match |-> match, isdir |-> isdir, lock |-> lock, present |-> TRUE]
EntryKinds ==
  {Entry(TRUE, TRUE, l) : l \in {"free", "perm", "busy"}}
    \cup {Entry(TRUE, FALSE, "free"), Entry(FALSE, TRUE, "free")}
BaseListings == UNION { [1..n -> EntryKinds] : n \in 0..MaxEntries }
BatchOps == {"delete_matching_release_dirs", "remove_prefix_dirs_subprocess"}

ToolsInit ==
  /\ version = "1.2.27" /\ date = ValidDate
  /\ platforms = <<"linux-x64">>
  /\ delete_existing = TRUE /\ clear_upgrade = FALSE
  /\ stop_event = "none" /\ os_name \in {"nt", "posix"}
  /\ pkg = PkgListing("ok", "none") /\ wins = <<>> /\ help = {}
  /\ fs = FreshFs /\ fs0 = FreshFs /\ locked = AllFree
  /\ stop0 = stop_event /\ log_callback = "records"
  /\ failBudget = 0
  /\ i = 1 /\ hi = 1 /\ ti = 1
  /\ inflight = <<>> /\ retpc = "none"
  /\ copies = <<>> /\ log = <<>> /\ progress = <<>>
  /\ result = NoResult /\ raised = "none"
  /\ run = 1 /\ log1 = <<>>
  /\ NoCopy
  /\ fn \in BatchOps \cup {"on_force_delete"}
  /\ dry_run \in (IF fn = "delete_matching_release_dirs" THEN BOOLEAN ELSE {FALSE})
  /\ IF fn \in BatchOps
     THEN /\ pc = "rm_list"
          /\ listable \in BOOLEAN
          /\ names \in BaseListings
          /\ env \in {[FullEnv EXCEPT !.username = u] : u \in BOOLEAN}
     ELSE /\ pc = "force_kill"
          /\ listable = TRUE
          /\ names \in {<<Entry(TRUE, TRUE, l)>> : l \in {"free", "perm", "busy"}}
          /\ env \in [username : {TRUE},
                      handle : IF os_name = "nt" THEN {"missing", "nopids", "pids"} ELSE {"missing"},
                      taskkill : BOOLEAN, movefile : BOOLEAN]
  /\ names0 = names
  /\ ni = 1 /\ count = 0 /\ scheduled = FALSE
  /\ finished = FALSE /\ NoLegacy /\ NoBatch

\* What one removal operation leaves alone.
ToolsFrame ==
  UNCHANGED <<request, sources, stop_event, failBudget, fs, i, hi, ti, inflight, retpc,
              copies, progress, run, log1, dstfile, dstfile0, tmpfile, faults, pending,
              killed, fn, listable, names0, env, gui>>

ToolReturn(v) == pc' = "rm_done" /\ result' = [returned |-> v] /\ raised' = "none"
Cmd(c, k) == [cmd |-> c, k |-> k]

\* A count of every entry whose name matches, directory or not.
CountedAnyMatch(e) == e.match

\* The entries the loop counts and tries to remove: the name matches and the
\* entry is a directory.
Counted(e) == e.match /\ e.isdir

\* An escalation that runs whether or not the ordinary removal worked.
EscalateAlways(ok) == TRUE

\* After shutil.rmtree: `continue` when it worked, the commands when it raised.
Escalate(ok) == ~ok

\* os.listdir(base_dir)
BatchList ==
  /\ pc = "rm_list"
  /\ IF ~listable
     THEN /\ log' = _log(log, "error", "cannot-list", <<>>)
          /\ ToolReturn(0)
     ELSE /\ pc' = "rm_next"
          /\ UNCHANGED <<log, result, raised>>
  /\ UNCHANGED <<cmds, names, ni, count, scheduled>>
  /\ ToolsFrame

\* The head of the loop over the names: the filter, the counter, the dry run.
BatchNext ==
  /\ pc = "rm_next"
  /\ IF ni > Len(names)
     THEN ToolReturn(count) /\ UNCHANGED <<log, ni, count>>
     ELSE IF ~Counted(names[ni])
     THEN ni' = ni + 1 /\ UNCHANGED <<pc, log, count, result, raised>>
     ELSE /\ count' = count + 1
          /\ IF fn = "delete_matching_release_dirs" /\ dry_run
             THEN /\ log' = _log(log, "info", "dry-delete-dir", <<ToString(ni)>>)
                  /\ ni' = ni + 1 /\ UNCHANGED pc
             ELSE /\ log' = _log(log, "info", "try-delete-dir", <<ToString(ni)>>)
                  /\ pc' = "rm_rmtree" /\ UNCHANGED ni
          /\ UNCHANGED <<result, raised>>
  /\ UNCHANGED <<cmds, names, scheduled>>
  /\ ToolsFrame

\* shutil.rmtree(path)
BatchRmtree ==
  /\ pc = "rm_rmtree"
  /\ LET ok == names[ni].lock = "free" /\ names[ni].present IN
     /\ names' = IF ok THEN [names EXCEPT ![ni].present = FALSE] ELSE names
     /\ log' = IF ok THEN _log(log, "success", "deleted", <<ToString(ni)>>)
               ELSE _log(log, "warning", "rmtree-failed", <<ToString(ni)>>)
     /\ IF Escalate(ok)
        THEN pc' = "rm_tools" /\ UNCHANGED ni
        ELSE pc' = "rm_next" /\ ni' = ni + 1
  /\ UNCHANGED <<cmds, count, result, raised, scheduled>>
  /\ ToolsFrame

\* The commands: takeown, icacls and rmdir on Windows, rm -rf elsewhere.
BatchTools ==
  /\ pc = "rm_tools"
  /\ IF os_name = "nt"
     THEN IF ~env.username
          THEN /\ pc' = "rm_done" /\ raised' = "OSError"
               /\ UNCHANGED <<cmds, names, log, ni, result>>
          ELSE /\ cmds' = cmds \o <<Cmd("takeown", ni), Cmd("icacls", ni), Cmd("rmdir", ni)>>
               /\ IF names[ni].present /\ names[ni].lock \in {"free", "perm"}
                  THEN /\ names' = [names EXCEPT ![ni].present = FALSE]
                       /\ log' = _log(log, "success", "deleted-by-subprocess", <<ToString(ni)>>)
                  ELSE /\ UNCHANGED names
                       /\ log' = IF names[ni].present
                                 THEN _log(log, "error", "still-exists", <<ToString(ni)>>)
                                 ELSE _log(log, "success", "deleted-by-subprocess", <<ToString(ni)>>)
               /\ pc' = "rm_next" /\ ni' = ni + 1
               /\ UNCHANGED <<result, raised>>
     ELSE /\ cmds' = Append(cmds, Cmd("rm", ni))
          /\ log' = IF names[ni].present
                    THEN _log(log, "error", "still-exists", <<ToString(ni)>>)
                    ELSE _log(log, "success", "deleted", <<ToString(ni)>>)
          /\ pc' = "rm_next" /\ ni' = ni + 1
          /\ UNCHANGED <<names, result, raised>>
  /\ UNCHANGED <<count, scheduled>>
  /\ ToolsFrame

\* on_force_delete, first half: find_and_kill_handles(path).
ForceKill ==
  /\ pc = "force_kill"
  /\ LET found == env.handle # "missing"
         pids == env.handle = "pids"
         killed_any == pids /\ env.taskkill
         l1 == IF found THEN _log(log, "info", "handle-pids", <<>>)
               ELSE _log(log, "warning", "handle-exe-not-found", <<>>)
         l2 == IF ~pids THEN _log(l1, "warning", "no-holders", <<>>)
               ELSE IF env.taskkill THEN _log(l1, "success", "process-killed", <<>>)
               ELSE _log(l1, "warning", "taskkill-failed", <<>>)
     IN /\ cmds' = cmds \o (IF found THEN <<Cmd("handle.exe", 1)>> ELSE <<>>)
                        \o (IF pids THEN <<Cmd("taskkill", 1)>> ELSE <<>>)
        /\ names' = IF killed_any /\ names[1].lock = "busy"
                    THEN [names EXCEPT ![1].lock = "free"] ELSE names
        /\ log' = IF killed_any THEN _log(l2, "info", "killed-will-delete", <<>>)
                  ELSE _log(l2, "warning", "no-kill-will-schedule", <<>>)
  /\ pc' = "force_schedule"
  /\ UNCHANGED <<ni, count, result, raised, scheduled>>
  /\ ToolsFrame

\* on_force_delete, second half: schedule_delete_on_reboot(path).
ForceSchedule ==
  /\ pc = "force_schedule"
  /\ IF os_name # "nt"
     THEN /\ log' = _log(_log(log, "error", "reboot-delete-windows-only", <<>>),
                         "error", "schedule-failed", <<>>)
          /\ UNCHANGED <<cmds, scheduled>>
     ELSE /\ cmds' = Append(cmds, Cmd("MoveFileExW", 1))
          /\ scheduled' = env.movefile
          /\ log' = IF env.movefile THEN _log(log, "info", "scheduled-on-reboot", <<>>)
                    ELSE _log(_log(log, "error", "schedule-rejected", <<>>),
                              "error", "schedule-failed", <<>>)
  /\ pc' = "rm_done"
  /\ UNCHANGED <<names, ni, count, result, raised>>
  /\ ToolsFrame

ToolsNext ==
  \/ BatchList \/ BatchNext \/ BatchRmtree \/ BatchTools
  \/ ForceKill \/ ForceSchedule

ToolsSpec == ToolsInit /\ [][ToolsNext]_vars

\* ------------------------- Rename_v4_GUI.py: the platform loop of the older GUI
\* A fourth specification follows the loop over the selected platforms of
\* _execute_release_thread in the older front end, which carries its own copy
\* of the release flow. It starts where the loop starts: the output directory
\* and its three groups were just made with os.mkdir, the staging directory
\* exists. is_running is stop_event: "clear" while running, "set" once stopped.

\* The check boxes ticked, in the order of platform_vars; at least one is.
V4Selections ==
  { SelectSeq(SupportedPlatforms, LAMBDA p : p \in S) :
      S \in (SUBSET {"linux-x64", "mac-arm64", "win-x64"}) \ {{}} }

V4Init ==
  /\ version = "1.2.27" /\ date = ValidDate
  /\ platforms \in V4Selections
  /\ delete_existing = FALSE /\ clear_upgrade = FALSE /\ dry_run = FALSE
  /\ stop_event = "clear" /\ os_name = "nt"
  /\ \E stLinux \in SourceStates, stMac \in SourceStates : pkg = PkgListing(stLinux, stMac)
  /\ wins \in WinListings
  /\ help = {}
  /\ fs = [dirs |-> {"out", "up"}, groups |-> Range(targets), files |-> {}]
  /\ fs0 = fs /\ locked = AllFree
  /\ stop0 = stop_event /\ log_callback = "records"
  /\ failBudget \in {0, 1}
  /\ pc = "v4_loop"
  /\ i = 1 /\ hi = 1 /\ ti = 1
  /\ inflight = <<>> /\ retpc = "none"
  /\ copies = <<>> /\ log = <<>> /\ progress = <<>>
  /\ result = NoResult /\ raised = "none"
  /\ run = 1 /\ log1 = <<>>
  /\ NoCopy /\ NoRemoval /\ finished = FALSE /\ NoLegacy /\ NoBatch

\* What a step of the older loop leaves alone.
V4Frame ==
  UNCHANGED <<request, sources, hi, ti, inflight, retpc, result, run, log1,
              onecopy, removal, gui>>

\* self.safe_copy(source, target) of the older GUI and the caller's success
\* line: an existing target is removed first, then shutil.copy; st is
\* [fs, log, copies], ok tells whether shutil.copy worked.
v4_safe_copy(st, t, ok) ==
  LET old == {x \in st.fs.files : x.dir = t.dst.dir /\ x.sub = t.dst.sub /\ x.name = t.dst.name}
      l1 == IF old # {} THEN _log(st.log, "warning", "removed-existing", t.dst.name) ELSE st.log
      f1 == [st.fs EXCEPT !.files = @ \ old]
  IN IF ok
     THEN [fs |-> [f1 EXCEPT !.files = @ \cup {File(t.dst.dir, t.dst.sub, t.dst.name, t.src)}],
           log |-> _log(l1, "success", "copied", t.dst.name),
           copies |-> Append(st.copies, [task |-> t, ok |-> TRUE])]
     ELSE [fs |-> f1,
           log |-> _log(l1, "error", "copy-failed", t.dst.name),
           copies |-> Append(st.copies, [task |-> t, ok |-> FALSE])]

\* The release copy, then the staging copy; bad is the one that fails, 0 for none.
v4_two_copies(st, rel, stg, bad) ==
  v4_safe_copy(v4_safe_copy(st, rel, bad # 1), stg, bad # 2)

\* progress = 20 + (i / len(selected_platforms)) * 50
v4_progress(k) == 20 + (k * 50) \div Len(platforms)

\* re.findall(r'\d+\.\d+\.\d+', win_files[0])[0]: the first triple, and no
\* value (IndexError) when there is none.
v4_win_version(m) == IF m # <<>> THEN <<m[1]>> ELSE <<>>

RECURSIVE v4_warn_each(_, _)
v4_warn_each(l, es) ==
  IF es = <<>> THEN l
  ELSE v4_warn_each(_log(l, "warning", "source-missing", Head(es).name), Tail(es))

\* for i, platform in enumerate(selected_platforms, 1): the end of the loop,
\* or the break when is_running was cleared.
V4Loop ==
  /\ pc = "v4_loop"
  /\ IF i > Len(platforms) \/ stop_event = "set"
     THEN pc' = "v4_done"
     ELSE pc' = "v4_body"
  /\ UNCHANGED <<stop_event, failBudget, fs, i, copies, log, progress, raised>>
  /\ V4Frame

\* The Windows branch of the loop body.
V4Win ==
  /\ pc = "v4_body"
  /\ platforms[i] = "win-x64"
  /\ \E bad \in (IF failBudget > 0 THEN 0..2 ELSE {0}) :
     LET l0 == _log(log, "info", "progress", <<"win-x64">>)
         win_files == get_suxiaoban_setup_files
         m == IF win_files = <<>> THEN <<>> ELSE FindTriples(win_files[1])
         v == v4_win_version(m)
         pr == _progress(progress, v4_progress(i))
     IN /\ progress' = (IF win_files # <<>> /\ v = <<>> THEN _progress(pr, 0) ELSE pr)
        /\ IF win_files = <<>>
           THEN /\ log' = _log(l0, "warning", "no-windows-installer", <<>>)
                /\ pc' = "v4_loop" /\ i' = i + 1
                /\ UNCHANGED <<fs, copies, failBudget, raised>>
           ELSE IF v = <<>>
           THEN /\ log' = _log(l0, "error", "execution-failed", <<"IndexError">>)
                /\ pc' = "v4_done" /\ raised' = "IndexError"
                /\ UNCHANGED <<fs, copies, failBudget, i>>
           ELSE LET l1 == _log(l0, "info", "win-version", v)
                    src == <<"pkgpath">> \o win_files[1]
                    rel == Task("release", i, src, Path("out", "win", new_filename(v[1], date, "win-x64")))
                    stg == Task("staging", i, src, Path("up", "", upgrade_name_win(v[1])))
                    there == \E x \in fs.files : x.dir = "out" /\ x.sub = "win" /\ x.name = rel.dst.name
                    r == v4_two_copies([fs |-> fs, log |-> l1, copies |-> copies], rel, stg, bad)
                IN /\ IF there
                      THEN /\ log' = _log(l1, "warning", "target-exists", rel.dst.name)
                           /\ UNCHANGED <<fs, copies, failBudget>>
                      ELSE /\ log' = r.log /\ fs' = r.fs /\ copies' = r.copies
                           /\ failBudget' = IF bad = 0 THEN failBudget ELSE failBudget - 1
                   /\ pc' = "v4_loop" /\ i' = i + 1
                   /\ UNCHANGED raised
  /\ UNCHANGED stop_event
  /\ V4Frame

\* The Linux/Mac branch of the loop body: the walk over os.listdir(pkgpath).
V4Pkg ==
  /\ pc = "v4_body"
  /\ platforms[i] # "win-x64"
  /\ \E bad \in (IF failBudget > 0 THEN 0..2 ELSE {0}) :
     LET arch == arch_map[platforms[i]].arch
         target_dir == arch_map[platforms[i]].target_dir
         l0 == _log(log, "info", "progress", <<arch>>)
         ms == SelectSeq(pkg, LAMBDA e : e.name[1] = "pkg-" /\ e.name[2] = arch)
         oks == {k \in 1..Len(ms) : ms[k].payload}
         first == IF oks = {} THEN 0 ELSE CHOOSE k \in oks : \A n \in oks : k <= n
         l1 == v4_warn_each(l0, IF first = 0 THEN ms ELSE SubSeq(ms, 1, first - 1))
     IN /\ progress' = _progress(progress, v4_progress(i))
        /\ IF first = 0
           THEN log' = l1 /\ UNCHANGED <<fs, copies, failBudget>>
           ELSE LET src == <<"pkgpath">> \o ms[first].name \o <<"payload.zip">>
                    rel == Task("release", i, src, Path("out", target_dir, new_filename(version, date, arch)))
                    stg == Task("staging", i, src, Path("up", "", upgrade_name(version, arch)))
                    r == v4_two_copies([fs |-> fs, log |-> l1, copies |-> copies], rel, stg, bad)
                IN /\ log' = r.log /\ fs' = r.fs /\ copies' = r.copies
                   /\ failBudget' = IF bad = 0 THEN failBudget ELSE failBudget - 1
  /\ pc' = "v4_loop" /\ i' = i + 1
  /\ UNCHANGED <<stop_event, raised>>
  /\ V4Frame

\* stop_execution: is_running is cleared while the thread runs.
V4Stop ==
  /\ stop_event = "clear"
  /\ pc # "v4_done"
  /\ stop_event' = "set"
  /\ log' = _log(log, "warning", "stopping", <<>>)
  /\ UNCHANGED <<failBudget, fs, pc, i, copies, progress, raised>>
  /\ V4Frame

V4Next == V4Loop \/ V4Win \/ V4Pkg \/ V4Stop

V4Spec == V4Init /\ [][V4Next]_vars

\* ------------------------------------- the older window: its buttons and workers
\* A fifth specification follows ReleaseSystemGUI of the older front end through
\* its events: the execute button and Ctrl+R (execute_release), the stop button
\* (stop_execution), the simulate button (simulate_release), the callbacks
\* posted with root.after, and the steps of every worker thread running
\* _execute_release_thread. A worker's position says what it is doing and its
\* field said holds the closing line it logged; what it copies, logs and shows
\* on the way is followed in V4Spec. log and progress hold the lines and values
\* written by the window's own thread.
MaxThreads == 2
MaxSims == 1
\* len(steps) in simulate_release
SimSteps == 9

\* The positions at which a worker is at work on the files.
FileOps == {"prep", "copy", "docs"}
Alive(w) == threads[w].at # "ended"
Moved(w, at, ix) == threads' = [threads EXCEPT ![w] = [@ EXCEPT !.at = at, !.i = ix]]
Said(w, at, line) == threads' = [threads EXCEPT ![w] = [@ EXCEPT !.at = at, !.said = line]]

GuiInit ==
  /\ version = "1.2.27" /\ date = ValidDate
  /\ platforms \in {<<>>, <<"linux-x64", "mac-arm64">>}
  /\ delete_existing = FALSE /\ clear_upgrade = FALSE /\ dry_run = FALSE
  /\ stop_event = "none" /\ os_name = "nt"
  /\ pkg = PkgListing("ok", "ok") /\ wins = <<>> /\ help = {}
  /\ fs = FreshFs /\ fs0 = FreshFs /\ locked = AllFree
  /\ stop0 = stop_event /\ log_callback = "records"
  /\ failBudget = 0
  /\ pc = "gui"
  /\ i = 1 /\ hi = 1 /\ ti = 1
  /\ inflight = <<>> /\ retpc = "none"
  /\ copies = <<>> /\ log = <<>> /\ progress = <<>>
  /\ result = NoResult /\ raised = "none"
  /\ run = 1 /\ log1 = <<>>
  /\ NoCopy /\ NoRemoval /\ finished = FALSE
  /\ is_running = FALSE /\ threads = <<>> /\ buttons = IdleButtons /\ afterq = <<>>
  /\ sim_i = 0 /\ sim_runs = 0 /\ sim0 = FALSE
  /\ NoBatch

\* What no event of the older window touches.
GuiFrame ==
  UNCHANGED <<request, sources, stop_event, failBudget, fs, pc, i, hi, ti, inflight, retpc,
              copies, result, raised, run, log1, onecopy, removal, finished, batch>>

\* execute_release, from the execute button when it is enabled, or from the
\* header's button or Ctrl+R, which nothing disables. It returns early while is_running is set, on
\* invalid input, without a package directory or a ticked platform, and when
\* the confirmation is declined; otherwise it sets is_running, switches the
\* buttons and starts a worker.
execute_release ==
  /\ \E via \in {"button", "header", "ctrl-r"} : via = "button" => buttons.execute = "normal"
  /\ threads' = Append(threads, [at |-> "prep", i |-> 1, said |-> "none"])
  /\ ~is_running
  /\ version # "" /\ DateMatches(date) /\ get_pkg_dirs # <<>> /\ platforms # <<>>
  /\ Len(threads) < MaxThreads
  /\ is_running' = TRUE
  /\ buttons' = RunningButtons
  /\ UNCHANGED <<afterq, sim_i, sim_runs, sim0, log, progress>>
  /\ GuiFrame

\* stop_execution, from the stop button: the flag is cleared and a line logged;
\* the worker is neither joined nor waited for.
stop_execution ==
  /\ buttons.stop = "normal"
  /\ is_running
  /\ is_running' = FALSE
  /\ log' = _log(log, "warning", "stopping", <<>>)
  /\ UNCHANGED <<threads, buttons, afterq, sim_i, sim_runs, sim0, progress>>
  /\ GuiFrame

\* Steps 1 to 7 of a worker: existing release directories, the staging
\* directory, the new directory tree. An error (os.mkdir on a directory that
\* is there, a removal that fails) takes it to the except clause.
WorkerPrep ==
  \E w \in DOMAIN threads : \E ok \in BOOLEAN :
    /\ threads[w].at = "prep"
    /\ IF ok THEN Moved(w, "loop", 1) ELSE Said(w, "finally", "run-error")
    /\ UNCHANGED <<is_running, buttons, afterq, sim_i, sim_runs, sim0, log, progress>>
    /\ GuiFrame

\* Head of the platform loop: it ends after the last platform, or when
\* is_running is found cleared.
WorkerLoop ==
  \E w \in DOMAIN threads :
    /\ threads[w].at = "loop"
    /\ IF threads[w].i > Len(platforms) \/ ~is_running
       THEN Moved(w, "docs_poll", threads[w].i)
       ELSE Moved(w, "copy", threads[w].i)
    /\ UNCHANGED <<is_running, buttons, afterq, sim_i, sim_runs, sim0, log, progress>>
    /\ GuiFrame

\* The copies of one platform.
WorkerCopy ==
  \E w \in DOMAIN threads : \E ok \in BOOLEAN :
    /\ threads[w].at = "copy"
    /\ IF ok THEN Moved(w, "loop", threads[w].i + 1) ELSE Said(w, "finally", "run-error")
    /\ UNCHANGED <<is_running, buttons, afterq, sim_i, sim_runs, sim0, log, progress>>
    /\ GuiFrame

\* if self.is_running: the documents are copied.
WorkerDocsPoll ==
  \E w \in DOMAIN threads :
    /\ threads[w].at = "docs_poll"
    /\ Moved(w, IF is_running THEN "docs" ELSE "fin_poll", threads[w].i)
    /\ UNCHANGED <<is_running, buttons, afterq, sim_i, sim_runs, sim0, log, progress>>
    /\ GuiFrame

WorkerDocs ==
  \E w \in DOMAIN threads :
    /\ threads[w].at = "docs"
    /\ Moved(w, "fin_poll", threads[w].i)
    /\ UNCHANGED <<is_running, buttons, afterq, sim_i, sim_runs, sim0, log, progress>>
    /\ GuiFrame

\* if self.is_running: the run is reported complete.
WorkerFinish ==
  \E w \in DOMAIN threads :
    /\ threads[w].at = "fin_poll"
    /\ Said(w, "finally", IF is_running THEN "run-complete" ELSE "none")
    /\ UNCHANGED <<is_running, buttons, afterq, sim_i, sim_runs, sim0, log, progress>>
    /\ GuiFrame

\* finally: is_running is cleared and the buttons' reset is posted to the
\* window's thread; the worker ends.
WorkerFinally ==
  \E w \in DOMAIN threads :
    /\ threads[w].at = "finally"
    /\ Moved(w, "ended", threads[w].i)
    /\ is_running' = FALSE
    /\ afterq' = Append(afterq, "reset-buttons")
    /\ UNCHANGED <<buttons, sim_i, sim_runs, sim0, log, progress>>
    /\ GuiFrame

\* The window's thread runs a posted callback.
RunAfter ==
  /\ afterq # <<>>
  /\ buttons' = IdleButtons
  /\ afterq' = Tail(afterq)
  /\ UNCHANGED <<is_running, threads, sim_i, sim_runs, sim0, log, progress>>
  /\ GuiFrame

\* The value simulate_release gives the progress bar at a step, (i + 1) / 9 * 100
\* with i counted from 0, here in whole percent with the step counted from 1.
sim_progress(k) == (k * 100) \div SimSteps

\* simulate_release, from the simulate button, up to its first root.update():
\* the opening line, then the first turn of the loop, which breaks at once
\* when is_running is not set.
SimStart ==
  /\ buttons.simulate = "normal"
  /\ sim_i = 0
  /\ sim_runs < MaxSims
  /\ sim_runs' = sim_runs + 1
  /\ sim0' = is_running
  /\ LET l1 == _log(log, "info", "sim-start", <<>>) IN
     IF is_running
     THEN /\ log' = _log(l1, "info", "sim-step", <<"1">>)
          /\ progress' = Append(progress, sim_progress(1))
          /\ sim_i' = 2
     ELSE /\ log' = _log(l1, "success", "sim-complete", <<>>)
          /\ progress' = Append(progress, 0)
          /\ sim_i' = 0
  /\ UNCHANGED <<is_running, threads, buttons, afterq>>
  /\ GuiFrame

\* A later turn of its loop, after root.update() let other events in: the
\* next step, or the closing line and the reset of the progress bar.
SimStep ==
  /\ sim_i > 0
  /\ IF sim_i <= SimSteps /\ is_running
     THEN /\ log' = _log(log, "info", "sim-step", <<ToString(sim_i)>>)
          /\ progress' = Append(progress, sim_progress(sim_i))
          /\ sim_i' = sim_i + 1
     ELSE /\ log' = _log(log, "success", "sim-complete", <<>>)
          /\ progress' = Append(progress, 0)
          /\ sim_i' = 0
  /\ UNCHANGED <<is_running, threads, buttons, afterq, sim_runs, sim0>>
  /\ GuiFrame

GuiNext ==
  \/ execute_release \/ stop_execution
  \/ WorkerPrep \/ WorkerLoop \/ WorkerCopy \/ WorkerDocsPoll \/ WorkerDocs
  \/ WorkerFinish \/ WorkerFinally
  \/ RunAfter \/ SimStart \/ SimStep

GuiSpec == GuiInit /\ [][GuiNext]_vars

\* ------------------------------------------------- the batch-rename utilities
\* A sixth specification follows the two command-line utilities over one flat
\* directory: batch_rename(...) of BatchRename.py (fn = "batch_rename") and
\* main() of batch_rename.py (fn = "main"), one file of the listing per step.
\* A file name is its base, a sequence of characters, and its extension, as
\* os.path.splitext parts them; names0 is the listing taken at the call, names
\* the directory now, ni the index in the listing, count is renamed_files.
MaxFiles == 2
Bases == {<<"a">>, <<"b">>, <<"a", "b">>}
FileNames == [base : Bases, ext : {".txt"}]
\* The listings of a directory of at most MaxFiles files, in every order.
FileListings ==
  { l \in UNION { [1..n -> FileNames] : n \in 0..MaxFiles } :
      \A j, k \in 1..Len(l) : j # k => l[j] # l[k] }

\* str.replace("a", "b") on a base.
replace_ab(b) == [k \in DOMAIN b |-> IF b[k] = "a" THEN "b" ELSE b[k]]
\* f"{counter:03d}_", the counter being the index of the file.
numbered(k) == <<"0", "0", ToString(k), "_">>

\* The new name batch_rename builds: replacement, prefix, suffix, then the
\* index in place of all of them when sequence is set.
br_new_name(n, k) ==
  LET b1 == IF opts.replace # <<>> THEN replace_ab(n.base) ELSE n.base
      b2 == IF opts.prefix # "" THEN <<opts.prefix>> \o b1 ELSE b1
      b3 == IF opts.suffix # "" THEN b2 \o <<opts.suffix>> ELSE b2
      b4 == IF opts.sequence THEN <<ToString(k)>> ELSE b3
  IN [base |-> b4, ext |-> n.ext]

\* generate_new_name of batch_rename.py: replacement, regular expression,
\* prefix, suffix, then the number in front.
generate_new_name(n, k) ==
  LET b1 == IF opts.replace # <<>> THEN replace_ab(n.base) ELSE n.base
      b2 == IF opts.regex = "a->b" THEN replace_ab(b1) ELSE b1
      b3 == IF opts.prefix # "" THEN <<opts.prefix>> \o b2 ELSE b2
      b4 == IF opts.suffix # "" THEN b3 \o <<opts.suffix>> ELSE b3
      b5 == IF opts.sequence THEN numbered(k) \o b4 ELSE b4
  IN [base |-> b5, ext |-> n.ext]

Has(ns, n) == \E k \in DOMAIN ns : ns[k] = n
\* os.rename(old, new) on the directory: "ok", or the error it raises. On
\* Windows an existing target is an error, elsewhere it is replaced.
rename_outcome(ns, old, new) ==
  IF ~Has(ns, old) THEN "FileNotFoundError"
  ELSE IF old # new /\ Has(ns, new) /\ os_name = "nt" THEN "FileExistsError"
  ELSE "ok"
rename_effect(ns, old, new) ==
  LET rest == SelectSeq(ns, LAMBDA x : x = old \/ x # new)
  IN [k \in DOMAIN rest |-> IF rest[k] = old THEN new ELSE rest[k]]

\* A utility that renames whatever the preview flag says.
RenameAlways == TRUE
\* if not preview: the rename is carried out.
MayRename == ~preview

Line(kind, a, b) == [kind |-> kind, old |-> a, new |-> b]
NoName == [base |-> <<>>, ext |-> ""]

RenameInit ==
  /\ fn \in {"batch_rename", "main"}
  /\ names0 \in FileListings /\ names = names0
  /\ preview \in BOOLEAN
  /\ os_name \in {"nt", "posix"}
  /\ opts \in [prefix : {"", "p"}, suffix : {"", "s"}, replace : {<<>>, <<"a", "b">>},
               regex : IF fn = "main" THEN {"none", "a->b", "invalid"} ELSE {"none"},
               sequence : BOOLEAN,
               verbose : IF fn = "main" THEN BOOLEAN ELSE {FALSE}]
  /\ pc = IF fn = "main" THEN "mn_start" ELSE "br_loop"
  /\ ni = 1 /\ count = 0 /\ printed = <<>>
  /\ result = NoResult /\ raised = "none"
  /\ version = "1.2.27" /\ date = ValidDate /\ platforms = <<>>
  /\ delete_existing = FALSE /\ clear_upgrade = FALSE /\ dry_run = FALSE
  /\ stop_event = "none" /\ stop0 = "none" /\ log_callback = "records"
  /\ pkg = <<>> /\ wins = <<>> /\ help = {}
  /\ fs = FreshFs /\ fs0 = FreshFs /\ locked = AllFree
  /\ failBudget = 0
  /\ i = 1 /\ hi = 1 /\ ti = 1
  /\ inflight = <<>> /\ retpc = "none"
  /\ copies = <<>> /\ log = <<>> /\ progress = <<>>
  /\ run = 1 /\ log1 = <<>>
  /\ NoCopy /\ listable = TRUE /\ env = FullEnv /\ scheduled = FALSE
  /\ finished = FALSE /\ NoLegacy

\* What no step of the utilities touches.
RenameFrame ==
  UNCHANGED <<request, sources, stop_event, failBudget, fs, i, hi, ti, inflight, retpc,
              copies, log, progress, result, run, log1, onecopy, fn, listable, names0,
              env, scheduled, finished, legacy, preview, opts>>

\* One turn of batch_rename's loop over the files: an unchanged name is
\* skipped; otherwise the operation is printed and, unless previewing,
\* carried out, an error of os.rename being printed and passed over.
BrStep ==
  /\ pc = "br_loop"
  /\ ni <= Len(names0)
  /\ LET old == names0[ni]
         new == br_new_name(old, ni)
         p1 == Append(printed, Line("rename", old, new))
         out == rename_outcome(names, old, new)
     IN IF new = old THEN UNCHANGED <<names, count, printed>>
        ELSE IF ~MayRename THEN printed' = p1 /\ UNCHANGED <<names, count>>
        ELSE IF out = "ok"
        THEN /\ names' = rename_effect(names, old, new)
             /\ count' = count + 1
             /\ printed' = p1
        ELSE /\ printed' = Append(p1, Line("error", old, NoName))
             /\ UNCHANGED <<names, count>>
  /\ ni' = ni + 1
  /\ UNCHANGED <<pc, raised>>
  /\ RenameFrame

\* After the loop batch_rename prints how many files it renamed.
BrEnd ==
  /\ pc = "br_loop"
  /\ ni > Len(names0)
  /\ printed' = Append(printed, [kind |-> "total", n |-> count])
  /\ pc' = "br_done"
  /\ UNCHANGED <<names, ni, count, raised>>
  /\ RenameFrame

\* main() of batch_rename.py up to its loop: a rename mode is required
\* (parser.error leaves with SystemExit), an empty listing ends the run.
MnStart ==
  /\ pc = "mn_start"
  /\ IF opts.prefix = "" /\ opts.suffix = "" /\ opts.replace = <<>> /\ opts.regex = "none"
        /\ ~opts.sequence
     THEN pc' = "mn_done" /\ raised' = "SystemExit" /\ UNCHANGED printed
     ELSE IF names0 = <<>>
     THEN /\ pc' = "mn_done" /\ UNCHANGED raised
          /\ printed' = Append(printed, [kind |-> "none-found"])
     ELSE /\ pc' = "mn_loop" /\ UNCHANGED raised
          /\ printed' = Append(printed, [kind |-> "found", n |-> Len(names0)])
  /\ UNCHANGED <<names, ni, count>>
  /\ RenameFrame

\* One turn of main()'s loop: the new path is built (re.sub raises on an
\* invalid pattern), printed when verbose or previewing, and the file renamed
\* unless previewing. Any exception ends the loop in the except clause.
MnStep ==
  /\ pc = "mn_loop"
  /\ ni <= Len(names0)
  /\ LET old == names0[ni]
         new == generate_new_name(old, ni)
         p1 == IF opts.verbose \/ preview THEN Append(printed, Line("rename", old, new))
               ELSE printed
         out == rename_outcome(names, old, new)
     IN IF opts.regex = "invalid"
        THEN /\ printed' = Append(printed, Line("error", old, NoName))
             /\ pc' = "mn_done" /\ UNCHANGED <<names, count, ni>>
        ELSE IF ~MayRename
        THEN printed' = p1 /\ ni' = ni + 1 /\ UNCHANGED <<names, count, pc>>
        ELSE IF out = "ok"
        THEN /\ names' = rename_effect(names, old, new)
             /\ count' = count + 1
             /\ printed' = p1 /\ ni' = ni + 1 /\ UNCHANGED pc
        ELSE /\ printed' = Append(p1, Line("error", old, NoName))
             /\ pc' = "mn_done" /\ UNCHANGED <<names, count, ni>>
  /\ UNCHANGED raised
  /\ RenameFrame

\* After its loop main() prints that nothing was renamed, or that it is done.
MnEnd ==
  /\ pc = "mn_loop"
  /\ ni > Len(names0)
  /\ printed' = Append(printed, [kind |-> IF preview THEN "preview-note" ELSE "done"])
  /\ pc' = "mn_done"
  /\ UNCHANGED <<names, ni, count, raised>>
  /\ RenameFrame

RenameNext == BrStep \/ BrEnd \/ MnStart \/ MnStep \/ MnEnd

RenameSpec == RenameInit /\ [][RenameNext]_vars

\* ------------------------------------------------------------------ claims
Completed == pc = "done" /\ raised = "none" /\ result # StoppedResult

\* C1: a dry run leaves the filesystem as it was when create_release was first
\* called, and a second dry run on the same request emits the same log events.
C1_DryRunMutatesNothing ==
  dry_run => /\ fs = fs0
             /\ (run = 2 /\ pc = "done" => log = log1)

\* The log half of C1 alone.
DryRunLogsRepeat == dry_run /\ run = 2 /\ pc = "done" => log = log1

\* C2: when create_release raises for an empty platform list, nothing has been
\* deleted, cleared or created: the filesystem is as it was at the call.
C2_EmptyPlatformsRejectedBeforeIO ==
  raised = "ValueError:platforms" => fs = fs0

\* C3: a date passes validation only if it is exactly eight decimal digits, and
\* a rejected version or date is rejected with the filesystem untouched.
EightDigits(d) == Len(d) = 8 /\ \A k \in 1..Len(d) : d[k] \in Digit
Accepted == pc # "start" /\ raised \notin {"ValueError:version", "ValueError:date"}
C3_DateAcceptedOnlyIfEightDigits ==
  /\ Accepted => EightDigits(date)
  /\ raised \in {"ValueError:version", "ValueError:date"} => fs = fs0

\* The rejection half of C3 alone: the four rejected inputs never pass.
RejectedBeforeIO ==
  /\ (version = "" \/ (~EightDigits(date) /\ date # ValidDate \o <<"\n">>)) => ~Accepted
  /\ raised \in {"ValueError:version", "ValueError:date"} => fs = fs0 /\ Len(log) = 1

\* The copy tasks of a run that is not cancelled, in order: per requested
\* platform with a source its release and staging copy, then every present
\* document to each of its groups, then releases.json when present.
RECURSIVE PlanPlatforms(_)
PlanPlatforms(k) ==
  IF k > Len(platforms) THEN <<>>
  ELSE (IF HasSource(k) THEN <<ReleaseTask(k), StagingTask(k)>> ELSE <<>>) \o PlanPlatforms(k + 1)
PlanDoc(h) ==
  IF help_items[h].hf \in help
  THEN [t \in 1..Len(help_items[h].targets) |-> DocTask(h, t)]
  ELSE <<>>
PlanDocs ==
  PlanDoc(1) \o PlanDoc(2) \o PlanDoc(3)
    \o (IF "releases.json" \in help THEN <<ReleasesTask>> ELSE <<>>)
Plan == PlanPlatforms(1) \o PlanDocs
Tasks(cs) == [k \in 1..Len(cs) |-> cs[k].task]
IsPrefix(a, b) == Len(a) <= Len(b) /\ SubSeq(b, 1, Len(a)) = a
SomeCopyFailed == \E k \in 1..Len(copies) : ~copies[k].ok

\* C4: once a copy has failed the run raises nothing, skips no later copy task
\* (the copies made are always a prefix of the plan), ends stopped only if the
\* stop flag is set, and otherwise ends normally with every task of the plan
\* attempted.
C4_FailedCopyNeverAborts ==
  SomeCopyFailed =>
    /\ raised = "none"
    /\ IsPrefix(Tasks(copies), Plan)
    /\ (pc = "done" => \/ result = StoppedResult /\ stop_event = "set"
                       \/ result = Summary /\ Tasks(copies) = Plan)

\* A completed run whose first platform's release copy failed and that made
\* every other copy of the plan, two platforms and the documents included.
C4_Witness ==
  /\ Completed
  /\ Len(platforms) = 2
  /\ Len(copies) >= 6
  /\ ~copies[1].ok /\ copies[1].task.role = "release"
  /\ copies[2].ok /\ copies[2].task.role = "staging"
  /\ Tasks(copies) = Plan

\* C5 as stated: in a completed run with the source of requested platform a
\* missing and that of b present, the result shows a as skipped and b as
\* copied (as task outcomes, or by listing b and not a).
ShowsSkipped(k) ==
  IF "outcomes" \in DOMAIN result THEN result.outcomes[k] = "skipped"
  ELSE "platforms" \in DOMAIN result /\ platforms[k] \notin Range(result.platforms)
ShowsCopied(k) ==
  IF "outcomes" \in DOMAIN result THEN result.outcomes[k] = "copied"
  ELSE "platforms" \in DOMAIN result /\ platforms[k] \in Range(result.platforms)
AllOkAt(dst) == \A k \in 1..Len(copies) : copies[k].task.dst = dst => copies[k].ok
Delivered(t) == FileAt(fs, t.dst) = {File(t.dst.dir, t.dst.sub, t.dst.name, t.src)}

StoppedAtPlatform(k) ==
  /\ pc = "done" /\ raised = "none"
  /\ log # <<>> /\ log[Len(log)].msg = "stopped-in-platforms"
  /\ i = k

PollPoint == pc \in {"poll_scan", "poll_tree"} \/ (pc = "plat_poll" /\ i <= total_plats)
C8_PollsReturnStopped ==
  [][ /\ (PollPoint /\ stop_event = "set" /\ pc' # pc =>
            pc' = "done" /\ result' = [status |-> "stopped"] /\ raised' = "none")
      /\ (pc = "cleanup" /\ pc' # pc => pc' = "poll_scan")
      /\ (pc = "tree" /\ pc' \notin {pc, "done"} => pc' = "poll_tree")
      /\ (pc' = "plat_body" /\ pc # pc' => pc = "plat_poll")
    ]_vars

\* A run stopped by the poll of the second platform iteration.
C8_Witness ==
  /\ StoppedAtPlatform(2)
  /\ result = [status |-> "stopped"]
  /\ stop_event = "set"

\* C9 as stated: once the stop flag is set no further safe_copy call starts:
\* not the staging copy of the platform whose release copy was in flight, no
\* document copy, not the copy of releases.json. (The first copy of a platform
\* whose poll found the flag clear counts as in flight.)
C9_NoCopyStartsAfterStop ==
  [][ stop_event = "set" =>
        ~(pc \in {"plat_second", "docs", "releases"} /\ inflight = <<>> /\ inflight' # <<>>) ]_vars

\* What holds instead: with the flag set no further platform iteration starts.
NoPlatformStartsAfterStop ==
  [][ stop_event = "set" => ~(pc = "plat_poll" /\ pc' = "plat_body") ]_vars

\* C10: safe_copy calls start in this order: platforms in the caller's order,
\* within a platform the release copy before the staging copy, and a document
\* or releases.json only once every platform copy of the plan was attempted.
Started == Tasks(copies) \o inflight
IsPlatformTask(t) == t.role \in {"release", "staging"}
C10_CopyOrder ==
  /\ \A j, k \in 1..Len(Started) :
       j < k =>
         LET a == Started[j]
             b == Started[k]
         IN /\ IsPlatformTask(b) =>
                 /\ IsPlatformTask(a)
                 /\ \/ a.plat < b.plat
                    \/ a.plat = b.plat /\ a.role = "release" /\ b.role = "staging"
            /\ b.role = "doc" => a.role # "releases"
  /\ \A k \in 1..Len(Started) :
       /\ IsPlatformTask(Started[k]) => Started[k].dst.dir = (IF Started[k].role = "release" THEN "out" ELSE "up")
       /\ ~IsPlatformTask(Started[k]) =>
            SelectSeq(Started, IsPlatformTask) = PlanPlatforms(1)
  /\ \A k \in 1..Len(Started) :
       IsPlatformTask(Started[k]) /\ Started[k].role = "staging" =>
         k > 1 /\ Started[k - 1].role = "release" /\ Started[k - 1].plat = Started[k].plat

\* A run of two platforms with sources that has started a document copy after
\* the four platform copies.
C10_Witness ==
  /\ Len(platforms) = 2 /\ platforms[1] # platforms[2]
  /\ Len(Started) >= 5
  /\ Started[1].role = "release" /\ Started[2].role = "staging" /\ Started[2].plat = 1
  /\ Started[3].role = "release" /\ Started[4].role = "staging" /\ Started[4].plat = 2
  /\ Started[5].role = "doc"

\* C11: the percentages handed to the progress callback during one run never
\* decrease, each lies between 0 and 100, and the one emitted at the top of a
\* platform iteration lies between 30 and 80.
C11_ProgressMonotone ==
  /\ \A k \in 1..Len(progress) : progress[k] \in 0..100
  /\ \A k \in 1..(Len(progress) - 1) : progress[k] <= progress[k + 1]
  /\ pc = "plat_body" => progress[Len(progress)] \in 30..80

\* A completed run of five platforms: all twelve milestones were reported.
C11_Witness ==
  /\ Completed
  /\ Len(platforms) = 5
  /\ progress = <<0, 5, 15, 30, 30, 40, 50, 60, 70, 85, 95, 100>>

\* What a filesystem holds of the output directory.
OutPart(f) ==
  [exists |-> "out" \in f.dirs, groups |-> f.groups, files |-> {x \in f.files : x.dir = "out"}]
\* The run has found the output directory in place (the warning of the tree step).
SawOutExists == \E k \in 1..Len(log) : log[k].msg = "out-exists"

\* C12: when the output directory exists at the call and delete_existing is
\* off, the tree step raises FileExistsError: the run never gets past that
\* step, no group subdirectory is ever created, and the directory and its
\* contents stay as they were.
C12_FailFastConflict ==
  "out" \in fs0.dirs /\ ~delete_existing =>
    /\ OutPart(fs) = OutPart(fs0)
    /\ pc \in {"start", "scan", "cleanup", "poll_scan", "staging", "tree", "done"}
    /\ (SawOutExists => pc = "done" /\ raised = "FileExistsError")
    /\ (pc = "done" => raised # "none" \/ result = StoppedResult)

\* A real run refused at the tree step, the stale file still in place and no
\* group subdirectory made.
C12_Witness ==
  /\ ~dry_run /\ ~delete_existing
  /\ pc = "done" /\ raised = "FileExistsError"
  /\ StaleOut \in fs.files /\ fs.groups = {}
  /\ log[Len(log)].msg = "out-exists"

\* The run has created the group subdirectories (the MKDIR lines of a real run).
MadeTree == \E k \in 1..Len(log) : log[k].msg = "mkdir"

UpFiles(f) == {x \in f.files : x.dir = "up"}

\* C14 as stated: in a real run that gets past the staging step, the staging
\* directory exists after that step, empty when clear_upgrade is on and with
\* the contents it had at the call when it is off, whether or not it existed
\* at the call.
C14_StagingDirReady ==
  ~dry_run /\ pc = "tree" =>
    /\ "up" \in fs.dirs
    /\ (clear_upgrade => UpFiles(fs) = {})
    /\ (~clear_upgrade => UpFiles(fs) = UpFiles(fs0))

\* What holds instead: the same, except that clearing a staging directory that
\* does not exist leaves it absent.
StagingDirReadyWhenPresent ==
  ~dry_run /\ pc = "tree" =>
    /\ ("up" \in fs.dirs <=> ~clear_upgrade \/ "up" \in fs0.dirs)
    /\ (clear_upgrade => UpFiles(fs) = {})
    /\ (~clear_upgrade => UpFiles(fs) = UpFiles(fs0))

\* Platform number k is one of the supported five.
Supported(k) == platforms[k] \in Range(SupportedPlatforms)

\* C17 as stated: when the loop leaves a supported platform that has no source
\* (no matching package directory, a matching directory without the payload,
\* no Windows installer), it has logged a warning for that platform and copied
\* nothing for it, and it goes on to the next platform.
C17_MissingSourceWarned ==
  pc = "plat_next" /\ Supported(i) /\ ~HasSource(i) =>
    /\ log[Len(log)].level = "warning"
    /\ \A c \in 1..Len(copies) : copies[c].task.plat # i

\* What holds instead: the warning is logged when the installer is missing or
\* when a matching directory lacks the payload; a platform with no matching
\* directory at all is left with nothing logged after its "platform" line.
MissingSourceWarnedIfDirectory ==
  pc = "plat_next" /\ Supported(i) /\ ~HasSource(i) =>
    /\ log[Len(log)].level = "warning"
         <=> (platforms[i] = "win-x64" \/ FirstMatch(arch_map[platforms[i]].arch) # 0)
    /\ log[Len(log)].level # "warning" => log[Len(log)] = Event("info", "platform", <<platforms[i]>>)
    /\ \A c \in 1..Len(copies) : copies[c].task.plat # i

\* The position of a directory name's suffix in lexicographic order.
SuffixRank(name) == CHOOSE r \in 1..Len(Suffixes) : Suffixes[r] = name[3]
\* The entry of the listing that matches pkg-<arch> and whose name is first in
\* lexicographic order, as an index of the listing, 0 when there is none.
LexFirst(arch) ==
  LET hits == {k \in 1..Len(pkg) : pkg[k].name[1] = "pkg-" /\ pkg[k].name[2] = arch}
  IN IF hits = {} THEN 0
     ELSE CHOOSE k \in hits : \A m \in hits : SuffixRank(pkg[k].name) <= SuffixRank(pkg[m].name)
\* The release copies of the platforms other than Windows, started so far.
PkgReleaseCopies ==
  SelectSeq(Started, LAMBDA t : t.role = "release" /\ platforms[t.plat] # "win-x64")
SourceDir(t) == SubSeq(t.src, 2, 4)

\* C18 as stated: the source of a release copy of a platform other than
\* Windows is the matching package directory whose name is first in
\* lexicographic order, in whatever order the listing returns the entries.
C18_LexicographicFirstWins ==
  \A c \in 1..Len(PkgReleaseCopies) :
    LET t == PkgReleaseCopies[c] IN
    SourceDir(t) = pkg[LexFirst(arch_map[platforms[t.plat]].arch)].name

\* What holds instead: the source is the matching directory that comes first in
\* the listing, and when that one lacks the payload nothing is copied even if a
\* later match has it.
ListingFirstWins ==
  /\ \A c \in 1..Len(PkgReleaseCopies) :
       LET t == PkgReleaseCopies[c] IN
       SourceDir(t) = pkg[FirstMatch(arch_map[platforms[t.plat]].arch)].name
  /\ Completed =>
       \A k \in 1..Len(platforms) :
         platforms[k] \in DOMAIN arch_map =>
           LET d == FirstMatch(arch_map[platforms[k]].arch) IN
           (d # 0 /\ pkg[d].payload) <=> (\E c \in 1..Len(copies) : copies[c].task.plat = k)

ResultWithoutFailure ==
  [out_dir |-> new_dir_name(version, date), platforms |-> platforms, dry_run |-> dry_run]
\* The error events of the log, and the failed copies, in order.
CopyErrors == SelectSeq(log, LAMBDA e : e.level = "error" /\ e.msg = "copy-failed")
FailedCopies == SelectSeq(copies, LAMBDA c : ~c.ok)

ReadOnlyOld == [data |-> "old", mode |-> "ro", hold |-> "free"]
\* The atomic replace of this call raises PermissionError: Windows refuses to
\* replace a read-only file, or the error is injected.
ReplaceDenied ==
  faults["replace"] = "perm" \/ (faults["replace"] = "ok" /\ os_name = "nt")
\* The events of the escalation, in order: the replace that failed, the removal
\* of the destination after its read-only bit was cleared, the direct copy.
Escalation ==
  << Event("warning", "permission-error", <<>>),
     Event("info", "removed-dst", <<>>),
     Event("success", "copy-after-remove", <<>>) >>

\* C15: a real safe_copy onto an existing read-only destination whose atomic
\* replace fails with a permission error, nothing else standing in the way of
\* the copy, logs the failed attempt as a warning, then the removal of the
\* destination, then the success of the direct copy, in this order and nothing
\* else; it returns True and runs no external command.
C15_EscalationOrder ==
  (/\ ~dry_run /\ dstfile0 = ReadOnlyOld /\ ReplaceDenied
   /\ \A o \in {"mkdir", "mkstemp", "copy2", "copy"} : faults[o] = "ok")
  => /\ IsPrefix(log, Escalation)
     /\ cmds = <<>>
     /\ (pc = "sc_done" =>
           /\ log = Escalation
           /\ result = [returned |-> TRUE]
           /\ dstfile.data = "src")
     /\ (pc \in {"sc_fallback", "sc_retry"} => log # <<>>)
     /\ pc \notin {"sc_tools", "sc_final"}

\* On Windows, with no injected fault, the call onto a read-only file has
\* returned True after the three events of the escalation.
C15_Witness ==
  /\ pc = "sc_done" /\ ~dry_run /\ os_name = "nt"
  /\ dstfile0 = ReadOnlyOld /\ faults = NoFaults
  /\ log = Escalation
  /\ result = [returned |-> TRUE]
  /\ cmds = <<>>

\* The positions of safe_copy on its temp-file path.
TmpPath == {"sc_mkstemp", "sc_copy2", "sc_copy2_end", "sc_replace", "sc_cleanup"}

\* C16: on the temp-file path of safe_copy, interrupted or not, the destination
\* is as it was at the call; the source's bytes are written to the temporary
\* file only, and the destination changes in one step, the replace, which
\* gives it the complete content of the source and takes the temporary file
\* away.
C16_TmpPathAtomic ==
  [][ /\ (pc \in TmpPath => dstfile = dstfile0)
      /\ (pc' \in TmpPath => dstfile' = dstfile0)
      /\ (pc \in TmpPath /\ dstfile' # dstfile =>
            /\ pc = "sc_replace" /\ tmpfile = "full"
            /\ dstfile'.data = "src" /\ tmpfile' = "none")
      /\ (pc \in TmpPath /\ tmpfile' # tmpfile => dstfile' = dstfile \/ pc = "sc_replace")
    ]_vars

\* The call was interrupted while the temporary file was half written: the old
\* destination is intact.
C16_Witness ==
  /\ killed /\ pc = "sc_copy2_end"
  /\ tmpfile = "part"
  /\ Exists(dstfile0) /\ dstfile = dstfile0

\* ---------------------------------------------------------------- C21 .. C23
BatchReturned == fn \in BatchOps /\ pc = "rm_done" /\ raised = "none"
MatchingSubdirs == {k \in DOMAIN names0 : names0[k].match /\ names0[k].isdir}
CommandsFor(k) == {j \in DOMAIN cmds : cmds[j].k = k}

\* C21: when a batch removal returns, the value is the number of entries of the
\* base directory that are directories with a matching name, each counted once
\* whether or not it is gone afterwards; an entry that is not such a directory
\* is left as it was and no command names it; an unlistable base gives 0.
C21_CountOfMatchingDirs ==
  BatchReturned =>
    /\ result.returned = (IF listable THEN Cardinality(MatchingSubdirs) ELSE 0)
    /\ \A k \in DOMAIN names0 :
         k \notin MatchingSubdirs => names[k] = names0[k] /\ CommandsFor(k) = {}

\* A return of 1 from a base that holds a matching directory still there after
\* the attempt and a matching entry that is not a directory.
C21_Witness ==
  /\ BatchReturned /\ listable /\ ~dry_run
  /\ result.returned = 1
  /\ \E k \in MatchingSubdirs : names[k].present
  /\ \E k \in DOMAIN names0 : names0[k].match /\ ~names0[k].isdir

RmtreeFailedFor(k) ==
  \E j \in DOMAIN log : log[j].level = "warning" /\ log[j].msg = "rmtree-failed"
                        /\ log[j].arg = <<ToString(k)>>

\* C22: in a batch removal every external command is run for a directory whose
\* shutil.rmtree has failed before, the commands are takeown, icacls and rmdir
\* on Windows and rm elsewhere, and the batch never terminates a process nor
\* registers a delete at restart.
C22_CommandsOnlyAfterRmtreeFailed ==
  fn \in BatchOps =>
    /\ \A j \in DOMAIN cmds :
         /\ cmds[j].cmd \in (IF os_name = "nt" THEN {"takeown", "icacls", "rmdir"} ELSE {"rm"})
         /\ names0[cmds[j].k].lock # "free"
         /\ RmtreeFailedFor(cmds[j].k)
    /\ ~scheduled

\* A batch on Windows that removed one directory by shutil.rmtree, with no
\* command, and ran the three commands for another one.
C22_Witness ==
  /\ BatchReturned /\ os_name = "nt"
  /\ \E k \in MatchingSubdirs : ~names[k].present /\ CommandsFor(k) = {}
  /\ \E k \in MatchingSubdirs : Cardinality(CommandsFor(k)) = 3

ForceDone == fn = "on_force_delete" /\ pc = "rm_done"

\* C23: at the end of a forced removal, a target that nothing holds any more
\* (free from the start, or freed by terminating its holders) has been removed
\* by the retry and no delete at restart is registered for it.
C23_RemovalRetriedBeforeSchedule ==
  ForceDone => (names[1].lock = "free" => ~names[1].present /\ ~scheduled)

\* The part of the sentence that holds: a registered delete at restart is
\* logged as scheduled at level info and no success of a removal is logged.
ScheduledReportedAsScheduled ==
  (ForceDone /\ scheduled) =>
    /\ log[Len(log)].level = "info" /\ log[Len(log)].msg = "scheduled-on-reboot"
    /\ \A j \in DOMAIN log : log[j].msg # "deleted"

\* ---------------------------------------------------------------- C24 .. C27
PlatformTasksOf(k) == {j \in 1..Len(Started) : IsPlatformTask(Started[j]) /\ Started[j].plat = k}
PassedPlatform(k) == i > k \/ (i = k /\ pc = "plat_next")

\* C24: for a requested identifier outside the supported five, no copy is ever
\* started; once the loop has passed it a warning naming it is in the log and
\* nothing was raised; and a run that completes has started the copies of every
\* later platform that has a source.
C24_UnknownPlatformSkipped ==
  \A k \in 1..Len(platforms) :
    platforms[k] \notin Range(SupportedPlatforms) =>
      /\ PlatformTasksOf(k) = {}
      /\ (PassedPlatform(k) =>
            /\ raised = "none"
            /\ \E j \in DOMAIN log : log[j] = Event("warning", "unknown-platform", <<platforms[k]>>))
      /\ (Completed => \A k2 \in (k + 1)..Len(platforms) :
                         HasSource(k2) => PlatformTasksOf(k2) # {})

\* A completed real run whose first identifier is unsupported and whose second
\* platform was copied.
C24_Witness ==
  /\ Completed /\ ~dry_run /\ Len(platforms) = 2
  /\ platforms[1] = UnknownPlatform
  /\ \E j \in 1..Len(copies) : copies[j].ok /\ copies[j].task.plat = 2

\* The first dotted triple among the parts of a name, v when there is none.
FirstTripleOr(name, v) ==
  LET at == {n \in DOMAIN name : name[n] \in DottedTriples}
  IN IF at = {} THEN v ELSE name[CHOOSE n \in at : \A m \in at : n <= m]
WinTasks == {j \in 1..Len(Started) : IsPlatformTask(Started[j]) /\ platforms[Started[j].plat] = "win-x64"}

WinNamesFromInstaller ==
  \A j \in WinTasks :
    LET t == Started[j]
        v == FirstTripleOr(wins[1], version)
    IN /\ t.src = <<"pkgpath">> \o wins[1]
       /\ t.role = "release" => t.dst = Path("out", "win", new_filename(v, date, "win-x64"))
       /\ t.role = "staging" => t.dst = Path("up", "", upgrade_name_win(v))

\* C25 as stated, for the loop of the older GUI: every copy started for win-x64
\* takes the first installer found and carries in its release and staging
\* names the first dotted triple of that installer's name, or the request's
\* version when the name has none; an installer without a triple raises
\* nothing, and once the loop has passed win-x64 both copies were started.
C25_WinVersionOrFallback ==
  /\ WinNamesFromInstaller
  /\ \A k \in 1..Len(platforms) :
       (platforms[k] = "win-x64" /\ wins # <<>>) =>
         /\ raised = "none"
         /\ i > k => Cardinality(PlatformTasksOf(k)) = 2

\* What create_release does: the names as C25 states them, and nothing raised
\* while a copy for win-x64 is started or done.
WinVersionFromInstallerInCreateRelease ==
  WinNamesFromInstaller /\ (WinTasks # {} => raised = "none")

\* A completed real run of create_release that found an installer without a
\* triple in its name and staged it under the request's version.
FallbackVersionStaged ==
  /\ Completed /\ ~dry_run /\ wins = <<WinFile("beta")>>
  /\ \E j \in 1..Len(copies) :
       /\ copies[j].ok /\ copies[j].task.role = "staging"
       /\ copies[j].task.dst.name = <<"gerenzhushou-", version, "-standard-win32-x64.zip">>

ReleaseTag(t) == t.dst.name[Len(t.dst.name) - 1]
StagingTag(t) == t.dst.name[4]
TagsOf(k, rel, stg) ==
  \A j \in PlatformTasksOf(k) :
    LET t == Started[j] IN
    /\ t.role = "release" => ReleaseTag(t) = rel
    /\ t.role = "staging" => StagingTag(t) = stg

\* C26: the copies of a mac platform carry the mac- tag in the release name and
\* the darwin- tag in the staging name (mac-arm64 / darwin-arm64, and
\* mac-intel-x64 / darwin-intel-x64 for mac-x64); the copies of a linux
\* platform carry the same tag in both names.
C26_MacStagingDarwin ==
  \A k \in 1..Len(platforms) :
    /\ platforms[k] = "mac-arm64" => TagsOf(k, "mac-arm64", "darwin-arm64")
    /\ platforms[k] = "mac-x64" => TagsOf(k, "mac-intel-x64", "darwin-intel-x64")
    /\ platforms[k] = "linux-x64" => TagsOf(k, "linux-x64", "linux-x64")
    /\ platforms[k] = "linux-arm64" => TagsOf(k, "linux-arm64", "linux-arm64")

\* A completed real run of the five platforms: both copies of mac-arm64 and of
\* linux-arm64 were made.
C26_Witness ==
  /\ Completed /\ ~dry_run /\ platforms = SupportedPlatforms
  /\ \A k \in {1, 3} : \E a, b \in PlatformTasksOf(k) :
       /\ a <= Len(copies) /\ b <= Len(copies) /\ copies[a].ok /\ copies[b].ok
       /\ Started[a].role = "release" /\ Started[b].role = "staging"

\* C27: with a non-empty version and a date of eight digits, the release copy
\* of linux-x64 goes to the Linux group under the name made of the product, the
\* version, the edition label, the last four digits of the date and linux-x64.
C27_LinuxReleaseName ==
  (version # "" /\ EightDigits(date)) =>
    \A k \in 1..Len(platforms) : \A j \in PlatformTasksOf(k) :
      (platforms[k] = "linux-x64" /\ Started[j].role = "release") =>
        Started[j].dst = Path("out", "linux",
                              <<"LingxiXiaoban-", version, "-std-edition-">>
                                \o SubSeq(date, 5, 8) \o <<"-", "linux-x64", ".zip">>)

\* A real run with another version and another date that made the copy.
C27_Witness ==
  /\ version = "10.0.1" /\ date = <<"2", "0", "2", "4", "0", "1", "0", "1">>
  /\ \E j \in 1..Len(copies) :
       /\ copies[j].ok /\ copies[j].task.role = "release"
       /\ copies[j].task.dst.name =
            <<"LingxiXiaoban-", "10.0.1", "-std-edition-", "0", "1", "0", "1", "-", "linux-x64", ".zip">>

\* ---------------------------------------------------------------- C28 .. C30
LastProgress == IF progress = <<>> THEN 0 ELSE progress[Len(progress)]
\* What the progress bar shows: the last value the progress callback set, or
\* the 100 that _on_finish wrote over it.
ProgressShown == IF finished THEN 100 ELSE LastProgress

\* C28: the last progress value of a completed run is 100, and a run that ended
\* stopped or by an exception has never had 100 reported: neither by the
\* progress callback nor on the progress bar.
C28_HundredOnlyWhenCompleted ==
  /\ Completed => LastProgress = 100
  /\ (pc = "done" /\ ~Completed) => 100 \notin Range(progress) /\ ProgressShown # 100

\* What create_release alone guarantees: its progress callback receives 100
\* as the last value of a completed run and in no other run.
HundredFromCallbackOnlyWhenCompleted ==
  /\ Completed => LastProgress = 100
  /\ (pc = "done" /\ ~Completed) => 100 \notin Range(progress)

DocNames == {"help-desktop.docx", "help-mac-install.docx", "help-domestic.docx"}
DocGroups(hf) ==
  CASE hf = "help-desktop.docx" -> {"mac", "win", "linux"}
    [] hf = "help-mac-install.docx" -> {"mac"}
    [] hf = "help-domestic.docx" -> {"linux"}
StartedFrom(src) == {j \in 1..Len(Started) : Started[j].src = src}
InDocs == pc \in {"docs", "docs_next", "releases"} \/ hi > 1

\* C29: the documentation phase raises nothing and stops nothing; in a completed
\* run a document missing from the documentation root has a warning and no
\* copy, a present one has exactly one copy to each group of its list and to no
\* other place, and releases.json is copied to the staging directory exactly
\* when it is present.
C29_DocsCopiedOrWarned ==
  /\ InDocs => raised = "none" /\ result # StoppedResult
  /\ Completed =>
       /\ \A hf \in DocNames :
            LET js == StartedFrom(<<"helppath", hf>>)
                warned == \E j \in DOMAIN log : log[j] = Event("warning", "help-missing", <<hf>>)
            IN IF hf \in help
               THEN /\ {Started[j].dst : j \in js} = {Path("out", g, <<hf>>) : g \in DocGroups(hf)}
                    /\ Cardinality(js) = Cardinality(DocGroups(hf))
                    /\ ~warned
               ELSE js = {} /\ warned
       /\ ("releases.json" \in help) <=>
            (\E j \in 1..Len(Started) : Started[j].dst = Path("up", "", <<"releases.json">>))
       /\ \A j \in StartedFrom(<<"helppath", "releases.json">>) :
            Started[j].dst = Path("up", "", <<"releases.json">>)

\* A completed real run with one document missing and the others copied.
C29_Witness ==
  /\ Completed /\ ~dry_run
  /\ "help-domestic.docx" \notin help /\ "help-mac-install.docx" \in help
  /\ "releases.json" \in help
  /\ \A j \in StartedFrom(<<"helppath", "help-mac-install.docx">>) : copies[j].ok
  /\ \E j \in StartedFrom(<<"helppath", "releases.json">>) : copies[j].ok

CleanupTried(d) == \E j \in DOMAIN log : log[j] = Event("info", "try-delete-dir", <<d>>)
CleanupErrors ==
  {j \in DOMAIN log : /\ log[j].level = "error"
                      /\ log[j].msg \in {"still-exists", "cleanup-error"}}

\* C30: when the removal before the run has tried the other release directory
\* and left it in place (the commands failed, or the removal raised), an error
\* is in the log, the removal's exception does not leave create_release, and,
\* the output directory itself being removable and a platform being requested,
\* the run ends only completed,
\* with the tree made and every planned copy attempted, or stopped on request.
C30_CleanupFailureNeverAborts ==
  (delete_existing /\ ~dry_run /\ CleanupTried("old") /\ "old" \in fs.dirs) =>
    /\ CleanupErrors # {}
    /\ raised # "OSError"
    /\ (pc = "done" /\ locked["out"] = "free" /\ platforms # <<>>) =>
         \/ Completed /\ MadeTree /\ Tasks(copies) = Plan
         \/ result = StoppedResult /\ stop_event = "set"

\* A completed real run whose removal raised on the other release directory.
C30_Witness ==
  /\ Completed /\ ~dry_run /\ delete_existing
  /\ "old" \in fs.dirs /\ "out" \in fs0.dirs
  /\ \E j \in DOMAIN log : log[j].msg = "cleanup-error"
  /\ \E j \in 1..Len(copies) : copies[j].ok

\* ------------------------------------------------- C31, C33, C34, C37: safe_copy
Logged(m) == \E j \in DOMAIN log : log[j].msg = m
ScSteps ==
  \/ ScEntry \/ ScMkstemp \/ ScCopy2 \/ ScCopy2End \/ ScReplace \/ ScCleanup \/ ScExcept
  \/ ScFallback \/ ScRetry \/ ScTools \/ ScFinal
Returned(v) == pc = "sc_done" /\ result = [returned |-> v]

C33_SafeCopyTotal ==
  /\ (pc # "sc_done" /\ ~killed) => ENABLED ScSteps
  /\ pc = "sc_done" =>
       /\ result \in {[returned |-> TRUE], [returned |-> FALSE]}
       /\ pending = "none" /\ raised = "none"
       /\ (~dry_run /\ result.returned) => dstfile.data = "src"

\* A call that returned False because the ownership commands themselves failed.
C33_Witness ==
  /\ Returned(FALSE) /\ ~dry_run
  /\ faults["tools"] # "ok" /\ Logged("tools-failed")

\* C34 as stated: a real call that returns False leaves a destination that
\* existed before the call in place with the content it had.
C34_FailedCopyKeepsOldDestination ==
  (Returned(FALSE) /\ ~dry_run /\ Exists(dstfile0)) => dstfile.data = "old"

\* C37: when the removal of the temporary file does not fail, no temporary
\* file is left once a call has returned.
C37_NoTmpLeft ==
  (pc = "sc_done" /\ faults["rmtmp"] = "ok") => tmpfile = "none"

\* A call that made its temporary file, could not move it onto the
\* destination, removed it and returned False.
C37_Witness ==
  /\ Returned(FALSE) /\ ~dry_run
  /\ faults["rmtmp"] = "ok" /\ faults["replace"] = "err"
  /\ faults["mkstemp"] = "ok" /\ faults["copy2"] = "ok"
  /\ tmpfile = "none"


\* ------------------------------------------------- C32, C35: the caller's side
\* The run is one that a recording callback lets complete: valid inputs, no
\* stop flag.
QuietRunCompletes == version # "" /\ DateMatches(date) /\ platforms # <<>> /\ stop_event = "none"

\* C32: an exception raised by the caller's log callback never affects the
\* main flow: the run does not end with the callback's exception, and a run
\* that a recording callback lets complete returns its summary.
C32_CallbackNeverAffectsFlow ==
  (pc = "done" /\ log_callback = "raises") =>
    /\ raised # "CallbackError"
    /\ QuietRunCompletes /\ get_pkg_dirs # <<>> => raised = "none" /\ result = Summary

\* What does hold: up to the first call of safe_copy the raising callback
\* changes nothing, every event reaches it and the run goes on.
CallbackShieldedOutsideSafeCopy ==
  (log_callback = "raises" /\ raised = "CallbackError") =>
    /\ copies = <<>>
    /\ Logged("start") /\ Logged("scan")
    /\ log[Len(log)].msg \in {"dry-copy", "copy", "copy-failed"}

\* A real run whose first copy was made and whose callback then ended the run.
CallbackEndedRunAfterCopy ==
  /\ log_callback = "raises" /\ ~dry_run /\ raised = "CallbackError"
  /\ copies = <<>>
  /\ fs.files \ fs0.files # {}

\* The run was called with the stop flag set, in real mode, on valid inputs.
CalledStopped == stop0 = "set" /\ ~dry_run /\ version # "" /\ DateMatches(date) /\ get_pkg_dirs # <<>>

\* C35: a run called with the stop flag already set returns "stopped" without
\* any filesystem mutation.
C35_StoppedAtCallMutatesNothing ==
  (CalledStopped /\ pc = "done") => result = StoppedResult /\ raised = "none" /\ fs = fs0

\* What does hold: the run returns "stopped" at the first poll, the staging
\* directory is neither cleared nor created and nothing is copied; only the
\* removal of existing release directories has run.
StoppedAtCallOnlyCleans ==
  (CalledStopped /\ pc = "done") =>
    /\ result = StoppedResult /\ raised = "none"
    /\ copies = <<>>
    /\ fs.dirs \subseteq fs0.dirs /\ fs.files \subseteq fs0.files
    /\ ("up" \in fs.dirs <=> "up" \in fs0.dirs) /\ UpFiles(fs) = UpFiles(fs0)
    /\ (~delete_existing => fs = fs0)

\* A run called with the stop flag set that deleted an existing release directory.
StoppedAtCallDeleted ==
  /\ CalledStopped /\ pc = "done" /\ result = StoppedResult
  /\ "old" \in fs0.dirs /\ "old" \notin fs.dirs


\* ------------------------------------------------ C36, C38: the older window
LiveWorkers == {w \in DOMAIN threads : Alive(w)}
WorkersOnFiles == {w \in DOMAIN threads : threads[w].at \in FileOps}

\* C36: at most one worker thread executes _execute_release_thread at any
\* time; no run starts while an earlier worker is still at work on the files.
C36_OneWorkerAtATime == Cardinality(LiveWorkers) <= 1

\* What does hold: a worker is started only when is_running is not set, and
\* the execute button is disabled from then on until a worker's reset is run.
StartOnlyWhenFlagClear ==
  [][Len(threads') > Len(threads) => ~is_running /\ is_running' /\ buttons' = RunningButtons]_vars

\* Two workers at work on the files at once, the second started, with the
\* execute button still disabled, after the stop button cleared is_running.
TwoWorkersOnFiles ==
  /\ Cardinality(WorkersOnFiles) = 2
  /\ buttons.execute = "disabled" /\ afterq = <<>>
  /\ Logged("stopping")

\* The lines of simulate_release in the log.
SimLog == SelectSeq(log, LAMBDA e : e.msg \in {"sim-start", "sim-step", "sim-complete"})
SimEnded == sim_runs > 0 /\ sim_i = 0
NineSteps == [k \in 1..SimSteps |-> Event("info", "sim-step", <<ToString(k)>>)]

\* C38: simulate_release, called while no release is running, logs its nine
\* steps in order, moves the progress value with each, then logs that the
\* simulation is complete and puts the progress back to 0.
C38_SimulateLogsNineSteps ==
  (SimEnded /\ ~sim0 /\ sim_runs = 1) =>
    /\ SimLog = <<Event("info", "sim-start", <<>>)>> \o NineSteps
                  \o <<Event("success", "sim-complete", <<>>)>>
    /\ progress = [k \in 1..SimSteps |-> sim_progress(k)] \o <<0>>

\* What does hold: called while no release is running, simulate_release logs
\* its opening and closing lines and no step, and sets the progress to 0 once.
SimulateIdleLogsNoStep ==
  (SimEnded /\ ~sim0 /\ sim_runs = 1) =>
    /\ SimLog = <<Event("info", "sim-start", <<>>), Event("success", "sim-complete", <<>>)>>
    /\ progress = <<0>>

\* A simulation called in a window that never started a release.
SimulatedIdle == SimEnded /\ ~sim0 /\ threads = <<>>


\* ---------------------------------------------------- C39: the preview mode
RenameLines == SelectSeq(printed, LAMBDA l : l.kind = "rename")
Ended == pc \in {"br_done", "mn_done"}

\* C39: in preview mode the batch-rename utilities rename nothing: whatever
\* the directory and the options, every file keeps its name at every step of
\* batch_rename(preview=True) and of main() with --preview, no rename is
\* counted, batch_rename ends by reporting 0 renamed files and main(), when it
\* has gone through a listing that is not empty, by its preview note.
C39_PreviewRenamesNothing ==
  preview =>
    /\ names = names0
    /\ count = 0
    /\ pc = "br_done" => printed[Len(printed)] = [kind |-> "total", n |-> 0]
    /\ (pc = "mn_done" /\ names0 # <<>> /\ ni > Len(names0)) =>
         printed[Len(printed)] = [kind |-> "preview-note"]

\* A preview by batch_rename that ended after announcing a new name for each
\* of two files.
C39_Witness ==
  /\ preview /\ fn = "batch_rename" /\ pc = "br_done"
  /\ Len(names0) = 2 /\ Len(RenameLines) = 2
  /\ \A k \in 1..2 : RenameLines[k].new # RenameLines[k].old

\* The same for main() of batch_rename.py with --preview.
PreviewByMain ==
  /\ preview /\ fn = "main" /\ pc = "mn_done"
  /\ Len(names0) = 2 /\ Len(RenameLines) = 2
  /\ \A k \in 1..2 : RenameLines[k].new # RenameLines[k].old

\* Without preview the same calls do rename.
RenamedForReal == ~preview /\ Ended /\ count = 2 /\ names # names0

====
